---- MODULE Spec2Model ----
(***************************************************************************)
(* A model of the conversational task-management backend:                  *)
(*   backend/app/agents/tools.py          the five task operations         *)
(*   backend/app/agents/todo_agent.py     the agent loop (process_message) *)
(*   backend/app/services/conversation.py the conversation store           *)
(*   backend/app/routes/chat.py           the chat endpoint                *)
(*                                                                         *)
(* Python values are rendered as follows.  Optional[T] is None == <<>> or  *)
(* Some(v) == <<v>>.  A dict of tool arguments is a record over ArgKeys    *)
(* whose fields are optional (None: the key is absent).  A JSON text and   *)
(* the Python value it denotes are records [kind, obj]: json.loads fails   *)
(* on kind "malformed", yields a non-dict (a list, a number) on "nondict"  *)
(* and the dict obj on "object".  A database table is                      *)
(* a function from primary key to row (tasks, conversations) or, for the   *)
(* never-deleted messages, the sequence of rows in insertion order (the    *)
(* row's id is its index).  datetime.utcnow() is the integer clock.        *)
(***************************************************************************)
EXTENDS Integers, Sequences, FiniteSets, TLC

VARIABLES
    tasks,          \* table tasks: id -> [user_id, title, description, completed, created_at]
    nextTaskId,     \* next primary key of tasks
    conversations,  \* table conversations: id -> [user_id, created_at, updated_at]
    nextConvId,     \* next primary key of conversations
    messages,       \* table messages, in insertion order (id = index)
    clock,          \* the last value datetime.utcnow() returned
    req,            \* per request: the locals of chat() and process_message()
    nStarted,       \* number of chat requests received so far
                    \* (ToolSpec: of direct calls begun)
    nRequested,     \* number of tool calls the language model has requested so far
                    \* (without a model: of direct calls begun with another in flight)
    lastCall,       \* the last _execute_tool invocation made directly (ToolSpec)
    hist            \* the last get_message_history invocation made directly (HistorySpec)

vars == <<tasks, nextTaskId, conversations, nextConvId, messages, clock,
          req, nStarted, nRequested, lastCall, hist>>

dbvars == <<tasks, nextTaskId, conversations, nextConvId, messages, clock>>

----------------------------------------------------------------------------
(* Bounds of the exploration *)

\* chat requests received in one behaviour
MaxTurns == 2
\* tool calls the language model requests in one behaviour (over all its batches)
MaxToolCalls == 2
\* model calls of one turn explored by LoopSpec; also the candidate iteration limit
IterationLimit == 8
\* direct tool invocations in one behaviour of ToolSpec
MaxDirectCalls == 3
\* rows of the messages table explored by HistorySpec beyond HISTORY_LIMIT
MaxExtraMessages == 2
\* rows of the messages table explored by TieSpec
MaxTiedMessages == 4
\* HistorySpec, TieSpec: turns that ended in a fault before their reply was written
MaxFaultedTurns == 1
\* ToolSpec, HistorySpec, TieSpec, MessagesSpec: calls begun while another call
\* was in flight
MaxOverlaps == 1

\* MessagesSpec: the conversations opened and the messages written
\* EditSpec: the tool calls made, over both requests
MaxEdits == 3

\* ConcSpec: the tool calls the model requests, over both requests
MaxConcCalls == 2

MaxOpenConversations == 2
MaxLogMessages == 3

----------------------------------------------------------------------------
(* Program constants *)

\* get_message_history(conversation_id, limit=20)
HISTORY_LIMIT == 20

SYSTEM_PROMPT == "You are a helpful todo assistant. ..."

DEFAULT_REPLY == "I processed your request."

----------------------------------------------------------------------------
(* Value domains *)

Users == {"alice", "bob"}

Reqs == {1, 2}

\* the text of the n-th distinct user message
Text(n) == "user message " \o ToString(n)

None == <<>>
Some(v) == <<v>>

ArgKeys == {"title", "description", "task_id", "status", "user_id"}

NoArgs == [k \in ArgKeys |-> None]

\* dict.get(key, default)
Get(d, k, default) == IF d[k] = None THEN default ELSE d[k][1]

\* json.loads(text): raises on malformed text
JsonLoads(text) ==
    IF text.kind = "malformed"
    THEN [ok |-> FALSE, error |-> "Expecting value: line 1 column 1 (char 0)"]
    ELSE [ok |-> TRUE, value |-> [kind |-> text.kind, obj |-> text.obj]]

\* json.dumps(result)
JsonDumps(result) == [kind |-> "object", obj |-> result]

\* datetime.isoformat()
IsoFormat(t) == <<"iso", t>>

Max(S) == CHOOSE x \in S : \A y \in S : y <= x

----------------------------------------------------------------------------
(* tools.py: the task operations.  Each takes the table and returns the     *)
(* set of outcomes [result, tasks, nextTaskId] the database can produce     *)
(* (more than one only where rows tie in an ORDER BY).                      *)

\* a query that filtered by the task id alone
FindTaskById(t, user_id, task_id) ==
    IF task_id # None /\ task_id[1] \in DOMAIN t THEN task_id ELSE None

\* select(Task).where(Task.id == task_id, Task.user_id == user_id) .scalar_one_or_none()
FindTask(t, user_id, task_id) ==
    IF task_id # None /\ task_id[1] \in DOMAIN t /\ t[task_id[1]].user_id = user_id
    THEN task_id
    ELSE None

\* Task.id, the primary key.  add_task passes no id (tools.py 39-46): the key of
\* a new row is given by the database at the INSERT, from a generator that src
\* does not show.  It is taken to be a key sequence, which gives no value twice
\* ("`delete` then `complete`/`update`/`delete` on the same id yields `NotFound`
\* every time thereafter"); nid is its next value.
TaskIdAfter(nid) == nid + 1

\* an add_task that reported the new row without committing it
add_task_uncommitted(t, nid, now, user_id, title, description) ==
    {[result |-> [task_id |-> Some(nid), status |-> "created", title |-> title],
      tasks |-> t,
      nextTaskId |-> TaskIdAfter(nid)]}

\* tools.py 38-57: the row is built from the arguments as they are, added and
\* committed inside try.  No statement of add_task looks at the title, and Task
\* is a table class of SQLModel (it is select()ed and session.add()ed), whose
\* constructor assigns its fields without validating them: an empty title is
\* stored like any other.
add_task(t, nid, now, user_id, title, description) ==
    LET task == [user_id |-> user_id, title |-> title, description |-> description,
                 completed |-> FALSE, created_at |-> now]
    IN  {[result |-> [task_id |-> Some(nid), status |-> "created", title |-> task.title],
          tasks |-> t @@ (nid :> task),
          nextTaskId |-> TaskIdAfter(nid)]}

\* the rows of S (a set of task ids) in ORDER BY created_at DESC: every order of ties
RECURSIVE OrderByCreatedDesc(_, _)
OrderByCreatedDesc(t, S) ==
    IF S = {} THEN {<<>>}
    ELSE LET newest == Max({t[id].created_at : id \in S})
             first == {id \in S : t[id].created_at = newest}
         IN  UNION {{<<id>> \o rest : rest \in OrderByCreatedDesc(t, S \ {id})} : id \in first}

\* a list that applied no status filter
list_tasks_unfiltered(t, nid, user_id, status) ==
    LET owned == {id \in DOMAIN t : t[id].user_id = user_id}
        Item(id) == [id |-> id, title |-> t[id].title, description |-> t[id].description,
                     completed |-> t[id].completed,
                     created_at |-> IsoFormat(t[id].created_at)]
    IN  {[result |-> [tasks |-> [i \in 1..Len(order) |-> Item(order[i])],
                      count |-> Len(order),
                      status_filter |-> IF status = None \/ status = Some("")
                                        THEN "all" ELSE status[1]],
          tasks |-> t,
          nextTaskId |-> nid] : order \in OrderByCreatedDesc(t, owned)}

list_tasks(t, nid, user_id, status) ==
    LET owned == {id \in DOMAIN t : t[id].user_id = user_id}
        rows == CASE status = Some("pending") -> {id \in owned : t[id].completed = FALSE}
                  [] status = Some("completed") -> {id \in owned : t[id].completed = TRUE}
                  [] OTHER -> owned
        Item(id) == [id |-> id, title |-> t[id].title, description |-> t[id].description,
                     completed |-> t[id].completed,
                     created_at |-> IsoFormat(t[id].created_at)]
    IN  {[result |-> [tasks |-> [i \in 1..Len(order) |-> Item(order[i])],
                      count |-> Len(order),
                      status_filter |-> IF status = None \/ status = Some("")
                                        THEN "all" ELSE status[1]],
          tasks |-> t,
          nextTaskId |-> nid] : order \in OrderByCreatedDesc(t, rows)}

\* a lookup that raised on a missing row instead of returning the error inline
NotFoundRaises(t, nid, task_id) == {[raised |-> "Task not found"]}

NotFound(t, nid, task_id) ==
    {[result |-> [error |-> "Task not found", task_id |-> task_id],
      tasks |-> t, nextTaskId |-> nid]}

\* a complete that refused a task already completed
complete_task_once(t, nid, user_id, task_id) ==
    LET task == FindTask(t, user_id, task_id)
    IN  IF task = None THEN NotFound(t, nid, task_id)
        ELSE IF t[task[1]].completed
        THEN {[result |-> [error |-> "Task already completed", task_id |-> task_id],
               tasks |-> t, nextTaskId |-> nid]}
        ELSE {[result |-> [task_id |-> task, status |-> "completed",
                           title |-> t[task[1]].title],
               tasks |-> [t EXCEPT ![task[1]].completed = TRUE], nextTaskId |-> nid]}

complete_task(t, nid, user_id, task_id) ==
    LET task == FindTask(t, user_id, task_id)
    IN  IF task = None THEN NotFound(t, nid, task_id)
        ELSE LET id == task[1]
                 t2 == [t EXCEPT ![id].completed = TRUE]
             IN  {[result |-> [task_id |-> Some(id), status |-> "completed",
                               title |-> t2[id].title],
                   tasks |-> t2, nextTaskId |-> nid]}

delete_task(t, nid, user_id, task_id) ==
    LET task == FindTask(t, user_id, task_id)
    IN  IF task = None THEN NotFound(t, nid, task_id)
        ELSE LET id == task[1]
             IN  {[result |-> [task_id |-> task_id, status |-> "deleted",
                               title |-> t[id].title],
                   tasks |-> [k \in DOMAIN t \ {id} |-> t[k]],
                   nextTaskId |-> nid]}

\* an update that assigned the description whether or not one was supplied
update_task_overwriting(t, nid, user_id, task_id, title, description) ==
    LET task == FindTask(t, user_id, task_id)
    IN  IF task = None THEN NotFound(t, nid, task_id)
        ELSE LET id == task[1]
                 t1 == IF title # None THEN [t EXCEPT ![id].title = title[1]] ELSE t
                 t2 == [t1 EXCEPT ![id].description = description]
             IN  {[result |-> [task_id |-> Some(id), status |-> "updated",
                               title |-> t2[id].title],
                   tasks |-> t2, nextTaskId |-> nid]}

update_task(t, nid, user_id, task_id, title, description) ==
    LET task == FindTask(t, user_id, task_id)
    IN  IF task = None THEN NotFound(t, nid, task_id)
        ELSE LET id == task[1]
                 t1 == IF title # None THEN [t EXCEPT ![id].title = title[1]] ELSE t
                 t2 == IF description # None
                       THEN [t1 EXCEPT ![id].description = description] ELSE t1
             IN  {[result |-> [task_id |-> Some(id), status |-> "updated",
                               title |-> t2[id].title],
                   tasks |-> t2, nextTaskId |-> nid]}

----------------------------------------------------------------------------
(* todo_agent.py: TodoAgent._execute_tool, the dispatch on the tool name.   *)
(* user_id is the caller's; tool_args is the parsed payload.                *)

\* tools.py 231-337: the names of the descriptors handed to the model, in order
get_all_tools ==
    <<"add_task", "list_tasks", "complete_task", "delete_task", "update_task">>

\* the names the if/elif chain of _execute_tool tests for
KnownTools == {"add_task", "list_tasks", "complete_task", "delete_task", "update_task"}

\* The outcomes of the if/elif chain of _execute_tool, its executors run for
\* user_id: [result, tasks, nextTaskId], or [raised] when tool_args.get is
\* evaluated on a value that is no dict (AttributeError).
ToolDispatch(t, nid, now, user_id, tool_name, tool_args) ==
    LET args == tool_args.obj
    IN  IF tool_name \in KnownTools /\ tool_args.kind # "object"
        THEN {[raised |-> "'list' object has no attribute 'get'"]}
        ELSE CASE tool_name = "add_task" ->
                    add_task(t, nid, now, user_id, Get(args, "title", ""),
                             args.description)
              [] tool_name = "list_tasks" ->
                    list_tasks(t, nid, user_id, Some(Get(args, "status", "all")))
              [] tool_name = "complete_task" ->
                    complete_task(t, nid, user_id, args.task_id)
              [] tool_name = "delete_task" ->
                    delete_task(t, nid, user_id, args.task_id)
              [] tool_name = "update_task" ->
                    update_task(t, nid, user_id, args.task_id, args.title,
                                args.description)
              [] OTHER ->
                    {[result |-> [error |-> "Unknown tool: " \o tool_name],
                      tasks |-> t, nextTaskId |-> nid]}

\* what a dispatcher would do that took the owner from the model's arguments
ExecuteToolTrustingArgs(t, nid, now, user_id, tool_name, tool_args) ==
    ToolDispatch(t, nid, now,
                 IF tool_args.kind = "object" THEN Get(tool_args.obj, "user_id", user_id)
                 ELSE user_id,
                 tool_name, tool_args)

\* a dispatcher that raised on a name outside the registry
ExecuteToolRaisingOnUnknown(t, nid, now, user_id, tool_name, tool_args) ==
    IF tool_name \notin KnownTools
    THEN {[raised |-> "Unknown tool: " \o tool_name]}
    ELSE ToolDispatch(t, nid, now, user_id, tool_name, tool_args)

\* a dispatcher whose chain had no branch for update_task
ExecuteToolWithoutUpdate(t, nid, now, user_id, tool_name, tool_args) ==
    IF tool_name = "update_task"
    THEN {[result |-> [error |-> "Unknown tool: " \o tool_name],
           tasks |-> t, nextTaskId |-> nid]}
    ELSE ToolDispatch(t, nid, now, user_id, tool_name, tool_args)

\* _execute_tool: every executor is called with user_id=user_id, the caller's
ExecuteTool(t, nid, now, user_id, tool_name, tool_args) ==
    ToolDispatch(t, nid, now, user_id, tool_name, tool_args)

----------------------------------------------------------------------------
(* conversation.py: ConversationService *)

\* conversation.py 47-55: created_at and updated_at are two reads of utcnow(),
\* created first and updated second; the commit gives the row the next id
create_conversation(c, ncid, created, updated, user_id) ==
    [id |-> ncid,
     conversations |-> c @@ (ncid :> [user_id |-> user_id, created_at |-> created,
                                      updated_at |-> updated]),
     nextConvId |-> ncid + 1]

\* a lookup by id alone
get_conversation_by_id(c, conversation_id, user_id) ==
    IF conversation_id \in DOMAIN c THEN Some(conversation_id) ELSE None

\* Optional id of the conversation with this id and owner
get_conversation(c, conversation_id, user_id) ==
    IF conversation_id \in DOMAIN c /\ c[conversation_id].user_id = user_id
    THEN Some(conversation_id)
    ELSE None

\* a resolver that opened a new conversation on every turn
get_or_create_conversation_always_new(c, ncid, created, updated, conversation_id, user_id) ==
    create_conversation(c, ncid, created, updated, user_id)

\* "if conversation_id:" is false for None and for 0
get_or_create_conversation(c, ncid, created, updated, conversation_id, user_id) ==
    LET found == IF conversation_id # None /\ conversation_id[1] # 0
                 THEN get_conversation(c, conversation_id[1], user_id)
                 ELSE None
    IN  IF found # None
        THEN [id |-> found[1], conversations |-> c, nextConvId |-> ncid]
        ELSE create_conversation(c, ncid, created, updated, user_id)

\* the message ids of S in ORDER BY created_at ASC: every order of ties
RECURSIVE OrderByCreatedAsc(_, _)
OrderByCreatedAsc(m, S) ==
    IF S = {} THEN {<<>>}
    ELSE LET oldest == -Max({-m[id].created_at : id \in S})
             first == {id \in S : m[id].created_at = oldest}
         IN  UNION {{<<id>> \o rest : rest \in OrderByCreatedAsc(m, S \ {id})} : id \in first}

\* SQL LIMIT: the first n rows of the ordered result
Limit(s, n) == IF Len(s) <= n THEN s ELSE SubSeq(s, 1, n)

\* the possible results (sequences of message ids) of get_messages
get_messages(m, conversation_id, limit) ==
    {Limit(s, limit) :
        s \in OrderByCreatedAsc(m, {id \in 1..Len(m) : m[id].conversation_id = conversation_id})}

RECURSIVE HistoryOf(_, _)
HistoryOf(m, ids) ==
    IF ids = <<>> THEN <<>>
    ELSE LET msg == m[Head(ids)]
         IN  (IF msg.role \in {"user", "assistant"}
              THEN <<[role |-> msg.role, content |-> msg.content]>>
              ELSE <<>>) \o HistoryOf(m, Tail(ids))

\* the possible results of get_message_history
get_message_history(m, conversation_id, limit) ==
    {HistoryOf(m, ids) : ids \in get_messages(m, conversation_id, limit)}

\* a write that kept one row per conversation and role, overwriting the latest
add_message_upsert(m, now, conversation_id, user_id, role, content) ==
    LET same == {id \in 1..Len(m) : m[id].conversation_id = conversation_id
                                    /\ m[id].role = role}
        row == [conversation_id |-> conversation_id, user_id |-> user_id,
                role |-> role, content |-> content, created_at |-> now]
    IN  IF same = {} THEN Append(m, row)
        ELSE [m EXCEPT ![Max(same)] = row]

\* a write that was never committed
add_message_uncommitted(m, now, conversation_id, user_id, role, content) == m

add_message(m, now, conversation_id, user_id, role, content) ==
    Append(m, [conversation_id |-> conversation_id, user_id |-> user_id,
               role |-> role, content |-> content, created_at |-> now])

add_user_message(m, now, conversation_id, user_id, content) ==
    add_message(m, now, conversation_id, user_id, "user", content)

\* a reply that was returned without being stored
add_assistant_message_unsaved(m, now, conversation_id, user_id, content) == m

add_assistant_message(m, now, conversation_id, user_id, content) ==
    add_message(m, now, conversation_id, user_id, "assistant", content)

\* a touch that wrote nothing
update_conversation_timestamp_skipped(c, now, conversation_id) == c

update_conversation_timestamp(c, now, conversation_id) ==
    [c EXCEPT ![conversation_id].updated_at = now]

----------------------------------------------------------------------------
(* The environment of a specification: what the clock and the language      *)
(* model may do.  ticks: the amounts utcnow() advances between two reads;   *)
(* calls: the tool calls the model may request; maxBatch, maxCalls: the     *)
(* longest batch and the most calls it requests in a behaviour; contents:   *)
(* the texts of its final replies; errors: the failures of a call.          *)

Now(e) == {clock + d : d \in e.ticks}

\* the values utcnow() may return on the read that follows the one that gave t
NowAfter(t, e) == {t + d : d \in e.ticks}

Call(name, kind, args) == [name |-> name, arguments |-> [kind |-> kind, obj |-> args]]

\* the sequences over S of length 1..n
SeqsUpTo(S, n) == UNION {[1..k -> S] : k \in 1..n}

Min(a, b) == IF a <= b THEN a ELSE b

----------------------------------------------------------------------------
(* The locals of one request: chat() and, inside it, process_message().     *)
(* pc is the await the request is suspended at ("tools": the head of the    *)
(* for loop over a batch).  A step performs the awaited database operation  *)
(* and runs the code that follows it up to the next await; a row is built,  *)
(* and utcnow() read for it, before the commit that writes it is awaited.   *)
(* The fields after response are history variables: what the model was      *)
(* asked and what was run.                                                  *)

IdleReq ==
    [pc |-> "idle",
     user_id |-> "", conversation_id |-> None, message |-> "",
     conv |-> 0,            \* id of the Conversation object held (0: none yet)
     history |-> <<>>,
     stamp |-> <<>>,        \* the utcnow() values of the row built and not yet committed
     pending |-> None,      \* the tool call in progress: what its session loaded and holds
     messages |-> <<>>, tool_calls_made |-> <<>>,
     assistant_message |-> [content |-> None, tool_calls |-> <<>>],
     i |-> 0,
     result |-> [response |-> "", tool_calls |-> <<>>],
     response |-> [status |-> 0],
     nModelCalls |-> 0,     \* model calls made in this turn
     requested |-> <<>>,    \* every tool call the model listed, in listed order
     executed |-> <<>>,     \* every _execute_tool invocation that returned, in order
     owners |-> <<>>,       \* the owner of each row those invocations wrote or returned
     messages0 |-> <<>>,    \* the messages table when the request arrived
     tasks1 |-> <<>>,       \* the tasks table after the last tool call (or on arrival)
     faultAt |-> ""]        \* the step that raised into chat()'s except clause

\* chat(): the request arrives
Receive(r, user_id, conversation_id, message) ==
    /\ req[r].pc \in {"idle", "done"}
    /\ nStarted' = nStarted + 1
    /\ req' = [req EXCEPT ![r] = [IdleReq EXCEPT !.pc = "resolve",
                                                 !.user_id = user_id,
                                                 !.conversation_id = conversation_id,
                                                 !.message = message,
                                                 !.messages0 = messages,
                                                 !.tasks1 = tasks]]
    /\ UNCHANGED <<dbvars, nRequested, lastCall, hist>>

\* chat.py 136-138, conversation.py 90-95 and 47-51: get_conversation's SELECT
\* when an id was named; when it finds no row, or no id was named,
\* create_conversation builds the row, reading utcnow() twice, and awaits its
\* commit
GetOrCreateConversation(r, e) ==
    /\ req[r].pc = "resolve"
    /\ \E created \in Now(e) :
       \E updated \in NowAfter(created, e) :
         LET out == get_or_create_conversation(conversations, nextConvId, created, updated,
                                               req[r].conversation_id, req[r].user_id)
         IN  IF out.nextConvId = nextConvId
             THEN /\ req' = [req EXCEPT ![r].conv = out.id, ![r].pc = "history"]
                  /\ clock' = clock
             ELSE /\ req' = [req EXCEPT ![r].stamp = <<created, updated>>,
                                        ![r].pc = "create"]
                  /\ clock' = updated
    /\ UNCHANGED <<tasks, nextTaskId, conversations, nextConvId, messages, nStarted,
                   nRequested, lastCall, hist>>

\* conversation.py 52-53: the commit inserts the row built earlier; the database
\* gives it the next id
CreateConversation(r) ==
    /\ req[r].pc = "create"
    /\ LET made == create_conversation(conversations, nextConvId, req[r].stamp[1],
                                       req[r].stamp[2], req[r].user_id)
       IN  /\ conversations' = made.conversations
           /\ nextConvId' = made.nextConvId
           /\ req' = [req EXCEPT ![r].conv = made.id, ![r].stamp = <<>>,
                                 ![r].pc = "refresh_conversation"]
    /\ UNCHANGED <<tasks, nextTaskId, messages, clock, nStarted, nRequested, lastCall, hist>>

\* conversation.py 54-55, chat.py 141: the refresh reads the row back, the
\* conversation is returned to chat(), which awaits the history's SELECT
RefreshConversation(r) ==
    /\ req[r].pc = "refresh_conversation"
    /\ req[r].conv \in DOMAIN conversations
    /\ req' = [req EXCEPT ![r].pc = "history"]
    /\ UNCHANGED <<dbvars, nStarted, nRequested, lastCall, hist>>

\* chat.py 141-146, conversation.py 157-165: the history's SELECT; then
\* add_message builds the user row, reading utcnow(), and awaits its commit
LoadHistory(r, e) ==
    /\ req[r].pc = "history"
    /\ \E h \in get_message_history(messages, req[r].conv, HISTORY_LIMIT) :
       \E now \in Now(e) :
         /\ req' = [req EXCEPT ![r].history = h, ![r].stamp = <<now>>,
                               ![r].pc = "save_user"]
         /\ clock' = now
    /\ UNCHANGED <<tasks, nextTaskId, conversations, nextConvId, messages, nStarted,
                   nRequested, lastCall, hist>>

\* conversation.py 166: the commit inserts the user row built earlier
SaveUserMessage(r) ==
    /\ req[r].pc = "save_user"
    /\ messages' = add_user_message(messages, req[r].stamp[1], req[r].conv,
                                    req[r].user_id, req[r].message)
    /\ req' = [req EXCEPT ![r].stamp = <<>>, ![r].pc = "agent"]
    /\ UNCHANGED <<tasks, nextTaskId, conversations, nextConvId, clock, nStarted,
                   nRequested, lastCall, hist>>

\* an agent start that read the history again, after the user message was saved
StartAgentReloading(r) ==
    /\ req[r].pc = "agent"
    /\ \E h \in get_message_history(messages, req[r].conv, HISTORY_LIMIT) :
         req' = [req EXCEPT
                   ![r].messages = <<[role |-> "system", content |-> SYSTEM_PROMPT]>>
                                   \o h
                                   \o <<[role |-> "user", content |-> req[r].message]>>,
                   ![r].tool_calls_made = <<>>,
                   ![r].pc = "model"]
    /\ UNCHANGED <<dbvars, nStarted, nRequested, lastCall, hist>>

\* conversation.py 167-168, chat.py 149-154, todo_agent.py 286-287 and 98-104:
\* the refresh of the user row; then the transcript is assembled and the first
\* model call awaited
StartAgent(r) ==
    /\ req[r].pc = "agent"
    /\ req' = [req EXCEPT
                 ![r].messages = <<[role |-> "system", content |-> SYSTEM_PROMPT]>>
                                 \o req[r].history
                                 \o <<[role |-> "user", content |-> req[r].message]>>,
                 ![r].tool_calls_made = <<>>,
                 ![r].pc = "model"]
    /\ UNCHANGED <<dbvars, nStarted, nRequested, lastCall, hist>>

\* an except clause that reported the failure without the calls already made
ErrorResultNoTrace(err, tool_calls_made) ==
    [response |-> "I encountered an error: " \o err \o ". Please try again.",
     tool_calls |-> <<>>,
     error |-> err]

\* todo_agent.py 183-188
ErrorResult(err, tool_calls_made) ==
    [response |-> "I encountered an error: " \o err \o ". Please try again.",
     tool_calls |-> tool_calls_made,
     error |-> err]

\* a return that passed the reply's text on as it came
FinalResultRaw(assistant_message, tool_calls_made) ==
    [response |-> IF assistant_message.content = None THEN ""
                  ELSE assistant_message.content[1],
     tool_calls |-> tool_calls_made]

\* todo_agent.py 178-181
FinalResult(assistant_message, tool_calls_made) ==
    [response |-> IF assistant_message.content = None \/ assistant_message.content = Some("")
                  THEN DEFAULT_REPLY
                  ELSE assistant_message.content[1],
     tool_calls |-> tool_calls_made]

\* chat.py 149-159, conversation.py 157-165: process_message returns its
\* result to chat(); add_message builds the assistant row, reading utcnow(), and
\* awaits its commit
ReturnResult(rq, result, now) ==
    [rq EXCEPT !.result = result, !.stamp = <<now>>, !.pending = None,
               !.pc = "save_assistant"]

\* a process_message whose try block began after the first model call: a failure
\* with no tool call made yet escapes to chat()'s except clause
ModelFailsEscapes(r, e) ==
    /\ req[r].pc = "model"
    /\ \E err \in e.errors :
       \E now \in Now(e) :
         IF req[r].tool_calls_made = <<>>
         THEN /\ req' = [req EXCEPT
                          ![r].nModelCalls = @ + 1,
                          ![r].response = [status |-> 500,
                                           detail |-> "An error occurred processing your message: "
                                                      \o err],
                          ![r].faultAt = "model",
                          ![r].pc = "done"]
              /\ clock' = clock
         ELSE /\ req' = [req EXCEPT
                          ![r] = ReturnResult([@ EXCEPT !.nModelCalls = @ + 1],
                                              ErrorResult(err, req[r].tool_calls_made),
                                              now)]
              /\ clock' = now
    /\ UNCHANGED <<tasks, nextTaskId, conversations, nextConvId, messages, nStarted,
                   nRequested, lastCall, hist>>

\* todo_agent.py 108-113 and 170-175: the model call raises
ModelFails(r, e) ==
    /\ req[r].pc = "model"
    /\ \E err \in e.errors :
       \E now \in Now(e) :
         /\ req' = [req EXCEPT
                     ![r] = ReturnResult([@ EXCEPT !.nModelCalls = @ + 1],
                                         ErrorResult(err, req[r].tool_calls_made), now)]
         /\ clock' = now
    /\ UNCHANGED <<tasks, nextTaskId, conversations, nextConvId, messages, nStarted,
                   nRequested, lastCall, hist>>

\* todo_agent.py 115, 122, 176-181: the model replies without tool calls
ModelAnswers(r, e) ==
    /\ req[r].pc = "model"
    /\ \E content \in e.contents :
       \E now \in Now(e) :
         LET am == [content |-> content, tool_calls |-> <<>>]
         IN  /\ req' = [req EXCEPT
                         ![r] = ReturnResult([@ EXCEPT !.nModelCalls = @ + 1,
                                                       !.assistant_message = am],
                                             FinalResult(am, req[r].tool_calls_made), now)]
             /\ clock' = now
    /\ UNCHANGED <<tasks, nextTaskId, conversations, nextConvId, messages, nStarted,
                   nRequested, lastCall, hist>>

\* todo_agent.py 124-138
AssistantDict(am) ==
    [role |-> "assistant",
     content |-> IF am.content = None THEN "" ELSE am.content[1],
     tool_calls |-> [k \in 1..Len(am.tool_calls) |->
                        [id |-> am.tool_calls[k].id, type |-> "function",
                         function |-> [name |-> am.tool_calls[k].name,
                                       arguments |-> am.tool_calls[k].arguments]]]]

\* todo_agent.py 115, 122-139, 176: the model replies with a batch of tool calls
ModelRequestsTools(r, e) ==
    /\ req[r].pc = "model"
    /\ nRequested < e.maxCalls
    /\ \E batch \in SeqsUpTo(e.calls, Min(e.maxBatch, e.maxCalls - nRequested)) :
         LET n0 == Len(req[r].requested)
             tcs == [k \in 1..Len(batch) |->
                        [id |-> "call_" \o ToString(n0 + k), name |-> batch[k].name,
                         arguments |-> batch[k].arguments]]
             am == [content |-> None, tool_calls |-> tcs]
         IN  /\ req' = [req EXCEPT ![r].nModelCalls = @ + 1,
                                ![r].assistant_message = am,
                                ![r].messages = Append(@, AssistantDict(am)),
                                ![r].requested = @ \o tcs,
                                ![r].i = 1,
                                ![r].pc = "tools"]
             /\ nRequested' = nRequested + Len(batch)
    /\ UNCHANGED <<dbvars, nStarted, lastCall, hist>>

\* a trace that put the newest record first
RecordToolCallFirst(tool_calls_made, tool_name, tool_args, result) ==
    <<[tool |-> tool_name, input |-> tool_args, result |-> result]>> \o tool_calls_made

\* a trace kept on the module-level agent instance, shared by the turns in
\* flight, instead of in a local of process_message
RecordToolCallOnInstance(tool_calls_made, tool_name, tool_args, result) ==
    LET shared == CHOOSE t \in {req[q].tool_calls_made : q \in Reqs} :
                      \A q \in Reqs : Len(req[q].tool_calls_made) <= Len(t)
    IN  Append(shared, [tool |-> tool_name, input |-> tool_args, result |-> result])

\* todo_agent.py 152-158
RecordToolCall(tool_calls_made, tool_name, tool_args, result) ==
    Append(tool_calls_made, [tool |-> tool_name, input |-> tool_args, result |-> result])

\* a tool entry that did not carry the id of the call it answers
ToolMessageUntagged(tool_call, result) ==
    [role |-> "tool", tool_call_id |-> "", content |-> JsonDumps(result)]

\* todo_agent.py 161-167
ToolMessage(tool_call, result) ==
    [role |-> "tool", tool_call_id |-> tool_call.id, content |-> JsonDumps(result)]

\* the owners of the rows a tool invocation wrote, deleted or returned
Touched(before, after, result) ==
    {before[id].user_id : id \in {k \in DOMAIN before : k \notin DOMAIN after \/ after[k] # before[k]}}
    \cup {after[id].user_id : id \in DOMAIN after \ DOMAIN before}
    \cup (IF "tasks" \in DOMAIN result
          THEN {before[result.tasks[k].id].user_id : k \in 1..Len(result.tasks)}
          ELSE {})
    \cup (IF "status" \in DOMAIN result /\ result.task_id[1] \in DOMAIN before
          THEN {before[result.task_id[1]].user_id}
          ELSE {})

\* todo_agent.py 152-167: the record joins the trace and the result the
\* transcript; then the next call of the batch, or the next model call
FinishToolCall(rq, tool_call, tool_args, result, owners, t) ==
    LET last == rq.i = Len(rq.assistant_message.tool_calls)
    IN  [rq EXCEPT !.tool_calls_made = RecordToolCall(@, tool_call.name, tool_args, result),
                   !.messages = Append(@, ToolMessage(tool_call, result)),
                   !.executed = Append(@, tool_call),
                   !.owners = Append(@, owners),
                   !.tasks1 = t,
                   !.pending = None,
                   !.i = IF last THEN 0 ELSE @ + 1,
                   !.pc = IF last THEN "model" ELSE "tools"]

\* tools.py 48, 136, 174, 219: `await session.commit()` of a session that
\* loaded the table as `seen` and
\* holds it as `held`, on the table as it is now: the rows added are inserted
\* (the database gives the id), the columns assigned are written to the rows
\* changed, the rows deleted are removed ("no cross-request locking", "last-
\* write-wins at the persistence layer")
SessionCommit(t, nid, seen, held) ==
    LET new == DOMAIN held \ DOMAIN seen
        gone == DOMAIN seen \ DOMAIN held
        dirty == {id \in DOMAIN seen \cap DOMAIN held : held[id] # seen[id]}
        rows == [id \in DOMAIN t \ gone |->
                    IF id \in dirty
                    THEN [f \in DOMAIN t[id] |->
                             IF held[id][f] # seen[id][f] THEN held[id][f] ELSE t[id][f]]
                    ELSE t[id]]
    IN  IF new = {}
        THEN [tasks |-> rows, nextTaskId |-> nid, id |-> None]
        ELSE [tasks |-> rows @@ (nid :> held[CHOOSE id \in new : TRUE]),
              nextTaskId |-> TaskIdAfter(nid),
              id |-> Some(nid)]

\* todo_agent.py 142-150, one iteration of the for loop up to the executor's
\* commit: json.loads, the dispatch, the executor's SELECT (tools.py 87, 128,
\* 166, 207) or, in add_task, the building of the row with utcnow() (39-47).
\* A call that writes nothing has its result here; 183-188 when it raises.
ExecuteNextTool(r, e) ==
    /\ req[r].pc = "tools"
    /\ LET tool_call == req[r].assistant_message.tool_calls[req[r].i]
           tool_name == tool_call.name
           parsed == JsonLoads(tool_call.arguments)
       IN  \E now \in Now(e) :
             IF ~parsed.ok
             THEN /\ req' = [req EXCEPT
                               ![r] = ReturnResult(@, ErrorResult(parsed.error,
                                                                  req[r].tool_calls_made),
                                                   now)]
                  /\ clock' = now
             ELSE \E out \in ExecuteTool(tasks, nextTaskId, now, req[r].user_id,
                                         tool_name, parsed.value) :
                    IF "raised" \in DOMAIN out
                    THEN /\ req' = [req EXCEPT
                                      ![r] = ReturnResult(@, ErrorResult(out.raised,
                                                                         req[r].tool_calls_made),
                                                          now)]
                         /\ clock' = now
                    ELSE IF "status" \in DOMAIN out.result
                    THEN /\ req' = [req EXCEPT
                                      ![r].pending = Some([seen |-> tasks, held |-> out.tasks,
                                                           result |-> out.result]),
                                      ![r].pc = "tool_commit"]
                         /\ clock' = IF out.nextTaskId # nextTaskId THEN now ELSE clock
                    ELSE /\ req' = [req EXCEPT
                                      ![r] = FinishToolCall(@, tool_call, parsed.value,
                                                            out.result,
                                                            Touched(tasks, tasks, out.result),
                                                            tasks)]
                         /\ clock' = clock
    /\ UNCHANGED <<tasks, nextTaskId, conversations, nextConvId, messages, nStarted,
                   nRequested, lastCall, hist>>

\* tools.py 48, 136, 174, 219: the executor's commit, for the call of tool_name
\* whose session holds p = [seen, held, result].  complete_task and update_task
\* write a row that another session may have deleted since the SELECT: the
\* UPDATE matches no row, the commit raises and the executor's except clause
\* returns the error (144-145, 227-228).  delete_task has its result after the
\* commit (176-180); the others go on to await the refresh.
ToolCommit(t, nid, tool_name, p) ==
    LET done == SessionCommit(t, nid, p.seen, p.held)
        target == p.result.task_id
        updates == tool_name \in {"complete_task", "update_task"}
    IN  IF updates /\ target[1] \notin DOMAIN t
        THEN [tasks |-> t, nextTaskId |-> nid, returned |-> TRUE,
              result |-> [error |-> "UPDATE statement on table 'tasks' expected to update 1 row(s); 0 were matched."],
              owners |-> {}]
        ELSE IF p.result.status = "deleted"
        THEN [tasks |-> done.tasks, nextTaskId |-> done.nextTaskId, returned |-> TRUE,
              result |-> p.result,
              owners |-> Touched(t, done.tasks, p.result)]
        ELSE [tasks |-> done.tasks, nextTaskId |-> done.nextTaskId, returned |-> FALSE,
              pending |-> [id |-> IF done.id # None THEN done.id
                                  ELSE IF updates THEN target ELSE None,
                           result |-> p.result,
                           owners |-> Touched(t, done.tasks, p.result)]]

\* tools.py 49-55, 137-143, 220-226: the refresh reads the row back as it is now
\* and the result is built from it; a row deleted since the commit makes the
\* refresh raise into the executor's except clause
ToolRefresh(t, p) ==
    IF p.id = None THEN p.result
    ELSE IF p.id[1] \in DOMAIN t
    THEN [p.result EXCEPT !.task_id = p.id, !.title = t[p.id[1]].title]
    ELSE [error |-> "Could not refresh instance"]

\* todo_agent.py 147 at the executor's commit (tools.py 48, 136, 174, 219)
CommitTool(r) ==
    /\ req[r].pc = "tool_commit"
    /\ LET tool_call == req[r].assistant_message.tool_calls[req[r].i]
           done == ToolCommit(tasks, nextTaskId, tool_call.name, req[r].pending[1])
       IN  /\ tasks' = done.tasks
           /\ nextTaskId' = done.nextTaskId
           /\ IF done.returned
              THEN req' = [req EXCEPT
                             ![r] = FinishToolCall(@, tool_call,
                                        JsonLoads(tool_call.arguments).value,
                                        done.result, done.owners, done.tasks)]
              ELSE req' = [req EXCEPT ![r].pending = Some(done.pending),
                                      ![r].pc = "tool_refresh"]
    /\ UNCHANGED <<conversations, nextConvId, messages, clock, nStarted, nRequested,
                   lastCall, hist>>

\* todo_agent.py 147 at the executor's refresh (tools.py 49, 137, 220), and the
\* return of the result
RefreshTool(r) ==
    /\ req[r].pc = "tool_refresh"
    /\ LET p == req[r].pending[1]
           tool_call == req[r].assistant_message.tool_calls[req[r].i]
       IN  req' = [req EXCEPT
                     ![r] = FinishToolCall(@, tool_call, JsonLoads(tool_call.arguments).value,
                                           ToolRefresh(tasks, p), p.owners, tasks)]
    /\ UNCHANGED <<dbvars, nStarted, nRequested, lastCall, hist>>

\* conversation.py 166: the commit inserts the assistant row built earlier
SaveAssistantMessage(r) ==
    /\ req[r].pc = "save_assistant"
    /\ messages' = add_assistant_message(messages, req[r].stamp[1], req[r].conv,
                                         req[r].user_id, req[r].result.response)
    /\ req' = [req EXCEPT ![r].stamp = <<>>, ![r].pc = "refresh_assistant"]
    /\ UNCHANGED <<tasks, nextTaskId, conversations, nextConvId, clock, nStarted,
                   nRequested, lastCall, hist>>

\* conversation.py 167-168 and 209, chat.py 162: the refresh of the assistant
\* row; then update_conversation_timestamp assigns utcnow() to the
\* conversation object's updated_at and awaits its commit
RefreshAssistant(r, e) ==
    /\ req[r].pc = "refresh_assistant"
    /\ \E now \in Now(e) :
         /\ req' = [req EXCEPT ![r].stamp = <<now>>, ![r].pc = "touch"]
         /\ clock' = now
    /\ UNCHANGED <<tasks, nextTaskId, conversations, nextConvId, messages, nStarted,
                   nRequested, lastCall, hist>>

\* chat.py 164-175; ToolCall.input is declared Dict[str, Any] (chat.py 45)
ChatResponse(conversation_id, result) ==
    IF \E k \in 1..Len(result.tool_calls) : result.tool_calls[k].input.kind # "object"
    THEN [status |-> 500,
          detail |-> "An error occurred processing your message: "
                     \o "1 validation error for ToolCall"]
    ELSE [status |-> 200, conversation_id |-> conversation_id,
          response |-> result.response, tool_calls |-> result.tool_calls]

\* conversation.py 210, chat.py 164-175: the commit writes the updated_at
\* assigned earlier; then the response is built
TouchAndRespond(r) ==
    /\ req[r].pc = "touch"
    /\ conversations' = update_conversation_timestamp(conversations, req[r].stamp[1],
                                                      req[r].conv)
    /\ LET resp == ChatResponse(req[r].conv, req[r].result)
       IN  req' = [req EXCEPT ![r].response = resp,
                              ![r].stamp = <<>>,
                              ![r].faultAt = IF resp.status = 500 THEN "respond" ELSE "",
                              ![r].pc = "done"]
    /\ UNCHANGED <<tasks, nextTaskId, messages, nextConvId, clock, nStarted, nRequested,
                   lastCall, hist>>

\* the awaits of chat() outside process_message: each may raise
FaultPoints == {"resolve", "create", "refresh_conversation", "history", "save_user",
                "agent", "save_assistant", "refresh_assistant", "touch"}

\* an except clause that undid the turn's writes to the messages table
ChatFaultRollback(r, e) ==
    /\ req[r].pc \in FaultPoints
    /\ \E err \in e.errors :
         req' = [req EXCEPT
                   ![r].response = [status |-> 500,
                                    detail |-> "An error occurred processing your message: "
                                               \o err],
                   ![r].faultAt = req[r].pc,
                   ![r].pc = "done"]
    /\ messages' = req[r].messages0
    /\ UNCHANGED <<tasks, nextTaskId, conversations, nextConvId, clock, nStarted,
                   nRequested, lastCall, hist>>

\* chat.py 177-183: an exception reaches chat()'s except clause
ChatFault(r, e) ==
    /\ req[r].pc \in FaultPoints
    /\ \E err \in e.errors :
         req' = [req EXCEPT
                   ![r].response = [status |-> 500,
                                    detail |-> "An error occurred processing your message: "
                                               \o err],
                   ![r].faultAt = req[r].pc,
                   ![r].pc = "done"]
    /\ UNCHANGED <<dbvars, nStarted, nRequested, lastCall, hist>>

----------------------------------------------------------------------------
(* Spec: chat turns served one after the other *)

ChatCalls ==
    {Call("add_task", "object", [NoArgs EXCEPT !.title = Some("milk"),
                                               !.user_id = Some("bob")])}

ChatEnv ==
    [ticks |-> {1},
     calls |-> ChatCalls,
     maxBatch |-> 1,
     maxCalls |-> MaxToolCalls,
     contents |-> {None, Some("Done.")},
     errors |-> {"Connection error."}]

Init ==
    /\ tasks = <<>>
    /\ nextTaskId = 1
    /\ conversations = <<>>
    /\ nextConvId = 1
    /\ messages = <<>>
    /\ clock = 0
    /\ req = [r \in Reqs |-> IdleReq]
    /\ nStarted = 0
    /\ nRequested = 0
    /\ lastCall = [n |-> 0]
    /\ hist = [n |-> 0]

\* the conversation ids a request may name
ConversationIds == {None} \cup {Some(c) : c \in 1..nextConvId}

\* the text a request carries: each turn brings a text not sent before
Texts == {Text(nStarted + 1)}

ReceiveNext ==
    \E user_id \in Users, conversation_id \in ConversationIds, message \in Texts :
        /\ \A r \in Reqs : req[r].pc \in {"idle", "done"}
        /\ nStarted < MaxTurns
        /\ Receive(1, user_id, conversation_id, message)

Next ==
    \/ ReceiveNext
    \/ \E r \in Reqs :
        \/ GetOrCreateConversation(r, ChatEnv)
        \/ CreateConversation(r)
        \/ RefreshConversation(r)
        \/ LoadHistory(r, ChatEnv)
        \/ SaveUserMessage(r)
        \/ StartAgent(r)
        \/ ModelFails(r, ChatEnv)
        \/ ModelAnswers(r, ChatEnv)
        \/ ModelRequestsTools(r, ChatEnv)
        \/ ExecuteNextTool(r, ChatEnv)
        \/ CommitTool(r)
        \/ RefreshTool(r)
        \/ SaveAssistantMessage(r)
        \/ RefreshAssistant(r, ChatEnv)
        \/ TouchAndRespond(r)
        \/ ChatFault(r, ChatEnv)

Spec == Init /\ [][Next]_vars

----------------------------------------------------------------------------
(* TurnSpec: one chat turn, its language model free to request any of       *)
(* TurnCalls.  The turn is the first one served, or follows a turn in which *)
(* bob had the model add a task (a state Spec reaches, see AfterTurnOfBob). *)

TurnCalls ==
    {Call("add_task", "object", [NoArgs EXCEPT !.title = Some("milk"),
                                               !.user_id = Some("bob")]),
     Call("complete_task", "object", [NoArgs EXCEPT !.task_id = Some(1)]),
     Call("delete_task", "object", [NoArgs EXCEPT !.task_id = Some(1),
                                                  !.user_id = Some("alice")]),
     Call("update_task", "object", [NoArgs EXCEPT !.task_id = Some(1),
                                                  !.title = Some("eggs")]),
     Call("list_tasks", "object", NoArgs),
     Call("purge_tasks", "object", NoArgs),
     Call("purge_tasks", "nondict", NoArgs),
     Call("add_task", "nondict", NoArgs),
     Call("list_tasks", "malformed", NoArgs)}

TurnEnv ==
    [ticks |-> {1},
     calls |-> TurnCalls,
     maxBatch |-> MaxToolCalls,
     maxCalls |-> MaxToolCalls,
     contents |-> {None, Some(""), Some("Done.")},
     errors |-> {"Connection error."}]

\* the tables after bob's turn "user message 1", answered with one add_task call
\* and the reply "Done."
AfterTurnOfBob ==
    /\ conversations = (1 :> [user_id |-> "bob", created_at |-> 1, updated_at |-> 6])
    /\ nextConvId = 2
    /\ messages = <<[conversation_id |-> 1, user_id |-> "bob", role |-> "user",
                     content |-> Text(1), created_at |-> 3],
                    [conversation_id |-> 1, user_id |-> "bob", role |-> "assistant",
                     content |-> "Done.", created_at |-> 5]>>
    /\ tasks = (1 :> [user_id |-> "bob", title |-> "milk", description |-> None,
                      completed |-> FALSE, created_at |-> 4])
    /\ nextTaskId = 2
    /\ clock = 6
    /\ nStarted = 1

TurnInit ==
    \/ Init
    \/ /\ AfterTurnOfBob
       /\ req = [r \in Reqs |-> IdleReq]
       /\ nRequested = 0
       /\ lastCall = [n |-> 0]
       /\ hist = [n |-> 0]

TurnReceive ==
    \E user_id \in Users, conversation_id \in ConversationIds, message \in Texts :
        /\ \A r \in Reqs : req[r].pc = "idle"
        /\ Receive(1, user_id, conversation_id, message)

TurnNext ==
    \/ TurnReceive
    \/ \E r \in Reqs :
        \/ GetOrCreateConversation(r, TurnEnv)
        \/ CreateConversation(r)
        \/ RefreshConversation(r)
        \/ LoadHistory(r, TurnEnv)
        \/ SaveUserMessage(r)
        \/ StartAgent(r)
        \/ ModelFails(r, TurnEnv)
        \/ ModelAnswers(r, TurnEnv)
        \/ ModelRequestsTools(r, TurnEnv)
        \/ ExecuteNextTool(r, TurnEnv)
        \/ CommitTool(r)
        \/ RefreshTool(r)
        \/ SaveAssistantMessage(r)
        \/ RefreshAssistant(r, TurnEnv)
        \/ TouchAndRespond(r)
        \/ ChatFault(r, TurnEnv)

TurnSpec == TurnInit /\ [][TurnNext]_vars

----------------------------------------------------------------------------
(* LoopSpec: one chat turn against a language model that may answer every   *)
(* call with one more tool call                                             *)

LoopEnv ==
    [ticks |-> {1},
     calls |-> {Call("add_task", "object", [NoArgs EXCEPT !.title = Some("milk")]),
                Call("list_tasks", "object", NoArgs)},
     maxBatch |-> 1,
     maxCalls |-> IterationLimit,
     contents |-> {Some("Done.")},
     errors |-> {"Connection error."}]

LoopReceive ==
    /\ nStarted = 0
    /\ Receive(1, "alice", None, Text(1))

LoopNext ==
    \/ LoopReceive
    \/ \E r \in Reqs :
        \/ GetOrCreateConversation(r, LoopEnv)
        \/ CreateConversation(r)
        \/ RefreshConversation(r)
        \/ LoadHistory(r, LoopEnv)
        \/ SaveUserMessage(r)
        \/ StartAgent(r)
        \/ ModelFails(r, LoopEnv)
        \/ ModelAnswers(r, LoopEnv)
        \/ ModelRequestsTools(r, LoopEnv)
        \/ ExecuteNextTool(r, LoopEnv)
        \/ CommitTool(r)
        \/ RefreshTool(r)
        \/ SaveAssistantMessage(r)
        \/ RefreshAssistant(r, LoopEnv)
        \/ TouchAndRespond(r)
        \/ ChatFault(r, LoopEnv)

LoopSpec == Init /\ [][LoopNext]_vars

----------------------------------------------------------------------------
(* ToolSpec: the task operations invoked through _execute_tool by any user, *)
(* in any order.  Each call runs in a session of its own and is suspended   *)
(* at its awaits (the SELECT is done in the step that begins the call), so  *)
(* that the steps of two calls interleave.                                  *)

TaskIds == {None} \cup {Some(id) : id \in 1..2}

\* the calls made: add_task without a title (and without a description), and
\* with a title and a description; complete_task and delete_task without an id
\* and on ids 1 and 2; update_task on id 1 with each choice of fields; a name
\* not declared
DirectCalls ==
    {Call("add_task", "object", [NoArgs EXCEPT !.title = t[1], !.description = t[2]]) :
        t \in {<<None, None>>, <<Some("milk"), Some("2 litres")>>}}
    \cup {Call("list_tasks", "object", [NoArgs EXCEPT !.status = st]) :
        st \in {None, Some("all"), Some("pending"), Some("completed")}}
    \cup {Call(name, "object", [NoArgs EXCEPT !.task_id = id]) :
        name \in {"complete_task", "delete_task"}, id \in TaskIds}
    \cup {Call("update_task", "object",
               [NoArgs EXCEPT !.task_id = Some(1), !.title = t, !.description = d]) :
        t \in {None, Some("bread")},
        d \in {None, Some("sliced")}}
    \cup {Call("purge_tasks", "object", NoArgs)}

ToolEnv ==
    [ticks |-> {1},
     calls |-> DirectCalls,
     maxBatch |-> 1,
     maxCalls |-> MaxDirectCalls,
     contents |-> {None},
     errors |-> {"Connection error."}]

\* the locals of a session that calls a service function directly (the fields
\* of a call in flight are those of the function called)
IdleCall == [pc |-> "idle"]

DirectInit ==
    /\ tasks = <<>>
    /\ nextTaskId = 1
    /\ conversations = <<>>
    /\ nextConvId = 1
    /\ messages = <<>>
    /\ clock = 0
    /\ req = [r \in Reqs |-> IdleCall]
    /\ nStarted = 0
    /\ nRequested = 0
    /\ lastCall = [n |-> 0]
    /\ hist = [n |-> 0]

\* the sessions other than r that have a call in flight
InFlight(r) == {q \in Reqs \ {r} : req[q].pc # "idle"}

\* the direct calls begun while another call was in flight
LateCalls == nRequested

\* the invocation held in rq has returned result, the tasks table being `after`;
\* before is the table the invocation found, and alone tells that no other call
\* was in flight at any time between the two
ReturnedCall(rq, result, after) ==
    [n |-> lastCall.n + 1, user_id |-> rq.user_id, tool_name |-> rq.tool_name,
     tool_args |-> rq.tool_args, result |-> result, before |-> rq.before,
     after |-> after, alone |-> rq.alone]

\* _execute_tool(session, user_id, tool_name, tool_args) is called in session r:
\* the dispatch and the executor up to its commit, that is its SELECT (tools.py
\* 87, 128, 166, 207) or, in add_task, the building of the row with utcnow()
\* (39-47).  A call that writes nothing returns here.
DirectCall(r, user_id, call, e) ==
    /\ req[r].pc = "idle"
    /\ nStarted < e.maxCalls
    /\ InFlight(r) # {} => LateCalls < MaxOverlaps
    /\ nStarted' = nStarted + 1
    /\ nRequested' = IF InFlight(r) = {} THEN nRequested ELSE nRequested + 1
    /\ \E now \in Now(e) :
       \E out \in ExecuteTool(tasks, nextTaskId, now, user_id, call.name,
                              JsonLoads(call.arguments).value) :
         LET mine == [pc |-> "tool_commit", user_id |-> user_id,
                      tool_name |-> call.name, tool_args |-> call.arguments.obj,
                      before |-> tasks, alone |-> InFlight(r) = {},
                      pending |-> [seen |-> tasks, held |-> out.tasks,
                                   result |-> out.result]]
         IN  IF "status" \in DOMAIN out.result
             THEN /\ req' = [q \in Reqs |->
                               IF q = r THEN mine
                               ELSE IF q \in InFlight(r)
                               THEN [req[q] EXCEPT !.alone = FALSE]
                               ELSE req[q]]
                  /\ clock' = IF out.nextTaskId # nextTaskId THEN now ELSE clock
                  /\ UNCHANGED lastCall
             ELSE /\ UNCHANGED req
                  /\ lastCall' = ReturnedCall(mine, out.result, tasks)
                  /\ UNCHANGED clock
    /\ UNCHANGED <<tasks, nextTaskId, conversations, nextConvId, messages, hist>>

\* tools.py 48, 136, 174, 219: the commit of the call in session r; delete_task
\* returns after it, and so does a complete_task or update_task whose UPDATE
\* matched no row
CommitCall(r) ==
    /\ req[r].pc = "tool_commit"
    /\ LET done == ToolCommit(tasks, nextTaskId, req[r].tool_name, req[r].pending)
       IN  /\ tasks' = done.tasks
           /\ nextTaskId' = done.nextTaskId
           /\ IF done.returned
              THEN /\ lastCall' = ReturnedCall(req[r], done.result, done.tasks)
                   /\ req' = [req EXCEPT ![r] = IdleCall]
              ELSE /\ req' = [req EXCEPT ![r].pending = done.pending,
                                         ![r].pc = "tool_refresh"]
                   /\ UNCHANGED lastCall
    /\ UNCHANGED <<conversations, nextConvId, messages, clock, nStarted, nRequested, hist>>

\* tools.py 49-55, 137-143, 220-226: the refresh of the call in session r, and
\* the return of its result
RefreshCall(r) ==
    /\ req[r].pc = "tool_refresh"
    /\ lastCall' = ReturnedCall(req[r], ToolRefresh(tasks, req[r].pending), tasks)
    /\ req' = [req EXCEPT ![r] = IdleCall]
    /\ UNCHANGED <<dbvars, nStarted, nRequested, hist>>

\* a call is given to session 1 when that session is free
ToolNext ==
    \/ \E r \in Reqs, user_id \in Users, call \in ToolEnv.calls :
          /\ r = 1 \/ req[1].pc # "idle"
          /\ DirectCall(r, user_id, call, ToolEnv)
    \/ \E r \in Reqs : CommitCall(r)
    \/ \E r \in Reqs : RefreshCall(r)

ToolSpec == DirectInit /\ [][ToolNext]_vars

----------------------------------------------------------------------------
(* Direct calls of the conversation service.  As in ToolSpec each call runs *)
(* in a session of its own and is suspended at its awaits: a row is built,  *)
(* utcnow() read for it, and the commit awaited; the commit inserts the row *)
(* and the database gives it its id; the refresh reads it back and the call *)
(* returns.  A session that has written the user message of a turn writes   *)
(* the turn's reply next, unless the turn ends in a fault.                  *)

\* session r holds the user message it wrote last, its reply not yet written
HoldsUserMessage(r) ==
    /\ req[r].pc = "idle"
    /\ "row" \in DOMAIN req[r]
    /\ req[r].row.role = "user"

\* the sessions other than r that have a call in flight or a turn in progress
InProgress(r) == {q \in Reqs \ {r} : req[q].pc # "idle" \/ HoldsUserMessage(q)}

\* the rows of the messages table written or about to be
RowsBegun == Len(messages) + Cardinality({q \in Reqs : req[q].pc = "commit_message"})

\* add_message(conversation_id, user_id, role, content) is called in session r
\* (conversation.py 139-166): the row is built with utcnow() and the commit
\* awaited
WriteMessage(r, conversation_id, user_id, role, e) ==
    LET reply == /\ HoldsUserMessage(r)
                 /\ req[r].row.conversation_id = conversation_id
                 /\ role = "assistant"
        late == ~reply /\ InProgress(r) # {}
    IN  /\ hist.n = 0
        /\ req[r].pc = "idle"
        /\ RowsBegun < e.maxCalls
        /\ late => LateCalls < MaxOverlaps
        /\ nRequested' = IF late THEN nRequested + 1 ELSE nRequested
        /\ \E now \in Now(e) :
             /\ req' = [req EXCEPT
                          ![r] = [pc |-> "commit_message",
                                  row |-> [conversation_id |-> conversation_id,
                                           user_id |-> user_id, role |-> role,
                                           content |-> Text(RowsBegun + 1),
                                           created_at |-> now]]]
             /\ clock' = now
        /\ UNCHANGED <<tasks, nextTaskId, conversations, nextConvId, messages, nStarted,
                       lastCall, hist>>

\* conversation.py 166: the commit inserts the row built earlier
CommitMessage(r) ==
    /\ hist.n = 0
    /\ req[r].pc = "commit_message"
    /\ messages' = add_message(messages, req[r].row.created_at,
                               req[r].row.conversation_id, req[r].row.user_id,
                               req[r].row.role, req[r].row.content)
    /\ req' = [req EXCEPT ![r].pc = "refresh_message"]
    /\ UNCHANGED <<tasks, nextTaskId, conversations, nextConvId, clock, nStarted,
                   nRequested, lastCall, hist>>

\* conversation.py 167-168: the refresh, and the return of the row
RefreshMessage(r) ==
    /\ hist.n = 0
    /\ req[r].pc = "refresh_message"
    /\ req' = [req EXCEPT ![r].pc = "idle"]
    /\ UNCHANGED <<dbvars, nStarted, nRequested, lastCall, hist>>

----------------------------------------------------------------------------
(* HistorySpec: a conversation's log is written by the chat turns (a user   *)
(* message, then an assistant message unless the turn ends in a fault), a   *)
(* few rows being of another kind (a system message, a message of another   *)
(* conversation); then the history is read as chat() reads it.              *)

\* rows that are not a user or assistant message of conversation 1
Others(m) == {id \in 1..Len(m) : m[id].conversation_id # 1 \/ m[id].role = "system"}

\* the user and assistant rows of conversation 1
LogIds(m) == {id \in 1..Len(m) : id \notin Others(m)}

\* the sessions with a turn of conversation 1 in progress: the user message is
\* in the table and the reply is not
OpenTurns ==
    {r \in Reqs : /\ "row" \in DOMAIN req[r]
                  /\ req[r].row.conversation_id = 1
                  /\ \/ req[r].row.role = "user" /\ req[r].pc \in {"refresh_message", "idle"}
                     \/ req[r].row.role = "assistant" /\ req[r].pc = "commit_message"}

\* the number of turns of conversation 1 that ended in a fault before their
\* reply was written
FaultedTurns(m) ==
    Cardinality({id \in LogIds(m) : m[id].role = "user"})
        - Cardinality({id \in LogIds(m) : m[id].role = "assistant"})
        - Cardinality(OpenTurns)

\* the next row of conversation 1 that a chat turn writes (chat.py 144-146,
\* 157-159): the reply of the turn in progress in session r, or the user message
\* of a new turn, which is given to session 1 when that session is free
WriteLogMessage(r, e) ==
    IF HoldsUserMessage(r) /\ req[r].row.conversation_id = 1
    THEN WriteMessage(r, 1, "alice", "assistant", e)
    ELSE /\ r = 1 \/ InProgress(2) # {}
         /\ WriteMessage(r, 1, "alice", "user", e)

WriteTurnMessage(r, e) == WriteLogMessage(r, e)

\* chat.py 177-183: the turn in progress in session r ends in a fault, its
\* reply unwritten
AbandonTurn(r) ==
    /\ hist.n = 0
    /\ HoldsUserMessage(r)
    /\ req[r].row.conversation_id = 1
    /\ FaultedTurns(messages) < MaxFaultedTurns
    /\ req' = [req EXCEPT ![r] = IdleCall]
    /\ UNCHANGED <<dbvars, nStarted, nRequested, lastCall, hist>>

\* the rows of another kind written or about to be
OthersBegun ==
    Cardinality(Others(messages))
        + Cardinality({q \in Reqs : /\ req[q].pc = "commit_message"
                                    /\ \/ req[q].row.conversation_id # 1
                                       \/ req[q].row.role = "system"})

WriteOtherMessage(r, e) ==
    /\ OthersBegun < MaxExtraMessages - 1
    /\ ~(HoldsUserMessage(r) /\ req[r].row.conversation_id = 1)
    /\ r = 1 \/ InProgress(2) # {}
    /\ \/ WriteMessage(r, 1, "alice", "system", e)
       \/ WriteMessage(r, 2, "alice", "user", e)

\* get_message_history(conversation_id), awaited to completion: one SELECT
ReadHistory(conversation_id, limit) ==
    /\ hist.n = 0
    /\ \E h \in get_message_history(messages, conversation_id, limit) :
         hist' = [n |-> 1, conversation_id |-> conversation_id, limit |-> limit,
                  result |-> h]
    /\ UNCHANGED <<dbvars, req, nStarted, nRequested, lastCall>>

HistoryEnv == [ChatEnv EXCEPT !.ticks = {1}, !.maxCalls = HISTORY_LIMIT + MaxExtraMessages]

HistoryNext ==
    \/ \E r \in Reqs : WriteTurnMessage(r, HistoryEnv)
    \/ \E r \in Reqs : WriteOtherMessage(r, HistoryEnv)
    \/ \E r \in Reqs : CommitMessage(r)
    \/ \E r \in Reqs : RefreshMessage(r)
    \/ \E r \in Reqs : AbandonTurn(r)
    \/ ReadHistory(1, HISTORY_LIMIT)

HistorySpec == DirectInit /\ [][HistoryNext]_vars

----------------------------------------------------------------------------
(* TieSpec: messages written on a clock that may stand still between two    *)
(* reads of utcnow(), so that rows can carry the same created_at; then the  *)
(* history is read as chat() reads it.                                      *)

TieEnv == [ChatEnv EXCEPT !.ticks = {0, 1}, !.maxCalls = MaxTiedMessages]

WriteTiedMessage(r) ==
    \/ WriteLogMessage(r, TieEnv)
    \/ /\ ~(HoldsUserMessage(r) /\ req[r].row.conversation_id = 1)
       /\ r = 1 \/ InProgress(2) # {}
       /\ WriteMessage(r, 2, "alice", "user", TieEnv)

TieNext ==
    \/ \E r \in Reqs : WriteTiedMessage(r)
    \/ \E r \in Reqs : CommitMessage(r)
    \/ \E r \in Reqs : RefreshMessage(r)
    \/ \E r \in Reqs : AbandonTurn(r)
    \/ ReadHistory(1, HISTORY_LIMIT)

TieSpec == DirectInit /\ [][TieNext]_vars

----------------------------------------------------------------------------
(* MessagesSpec: conversations opened and written to by their owners, then  *)
(* GET /{user_id}/conversations/{conversation_id}/messages by any user for  *)
(* any id.  verify_user_access has made the path's user_id the caller's.    *)

MESSAGES_LIMIT == 100

RECURSIVE MessageDicts(_, _)
MessageDicts(m, ids) ==
    IF ids = <<>> THEN <<>>
    ELSE <<[id |-> Head(ids), role |-> m[Head(ids)].role,
            content |-> m[Head(ids)].content,
            created_at |-> IsoFormat(m[Head(ids)].created_at)]>>
         \o MessageDicts(m, Tail(ids))

\* an endpoint that did not look the conversation up
ConversationNotFoundUnchecked(c, user_id, conversation_id) == None

\* chat.py 254-259: get_conversation has been awaited; the HTTPException raised
\* when it found no conversation of the caller's, None when the endpoint goes on
ConversationNotFound(c, user_id, conversation_id) ==
    IF get_conversation(c, conversation_id, user_id) = None
    THEN Some([status |-> 404, body |-> [detail |-> "Conversation not found"]])
    ELSE None

\* chat.py 261-271: get_messages has been awaited; the list returned
MessageList(m, conversation_id) ==
    {[status |-> 200, body |-> MessageDicts(m, ids)] :
        ids \in get_messages(m, conversation_id, MESSAGES_LIMIT)}

\* the conversations opened or about to be
ConversationsBegun ==
    nextConvId - 1 + Cardinality({q \in Reqs : req[q].pc = "commit_conversation"})

\* create_conversation(user_id) is called in session r (conversation.py 37-53):
\* the row is built with two reads of utcnow() and the commit awaited
OpenConversation(r, user_id, e) ==
    LET late == InProgress(r) # {}
    IN  /\ hist.n = 0
        /\ req[r].pc = "idle"
        /\ ConversationsBegun < MaxOpenConversations
        /\ late => LateCalls < MaxOverlaps
        /\ nRequested' = IF late THEN nRequested + 1 ELSE nRequested
        /\ \E created \in Now(e) :
           \E updated \in NowAfter(created, e) :
             /\ req' = [req EXCEPT
                          ![r] = [pc |-> "commit_conversation", user_id |-> user_id,
                                  stamp |-> <<created, updated>>]]
             /\ clock' = updated
        /\ UNCHANGED <<tasks, nextTaskId, conversations, nextConvId, messages, nStarted,
                       lastCall, hist>>

\* conversation.py 53: the commit inserts the conversation built earlier
CommitConversation(r) ==
    /\ hist.n = 0
    /\ req[r].pc = "commit_conversation"
    /\ LET made == create_conversation(conversations, nextConvId, req[r].stamp[1],
                                       req[r].stamp[2], req[r].user_id)
       IN  /\ conversations' = made.conversations
           /\ nextConvId' = made.nextConvId
           /\ req' = [req EXCEPT ![r] = [pc |-> "refresh_conversation", conv |-> made.id]]
    /\ UNCHANGED <<tasks, nextTaskId, messages, clock, nStarted, nRequested, lastCall,
                   hist>>

\* conversation.py 54-55: the refresh, and the return of the conversation
ReturnConversation(r) ==
    /\ hist.n = 0
    /\ req[r].pc = "refresh_conversation"
    /\ req[r].conv \in DOMAIN conversations
    /\ req' = [req EXCEPT ![r] = IdleCall]
    /\ UNCHANGED <<dbvars, nStarted, nRequested, lastCall, hist>>

\* add_message by the conversation's owner, as chat() calls it
PostMessage(r, conversation_id, role, e) ==
    /\ conversation_id \in DOMAIN conversations
    /\ WriteMessage(r, conversation_id, conversations[conversation_id].user_id, role, e)

\* get_conversation_messages(user_id, conversation_id) is called in session r
\* (chat.py 233-261): the SELECT of get_conversation; the 404 is raised on its
\* result, or get_messages is awaited
GetConversationMessages(r, user_id, conversation_id) ==
    LET late == InProgress(r) # {}
        raised == ConversationNotFound(conversations, user_id, conversation_id)
    IN  /\ hist.n = 0
        /\ req[r].pc = "idle"
        /\ ~HoldsUserMessage(r)
        /\ late => LateCalls < MaxOverlaps
        /\ nRequested' = IF late THEN nRequested + 1 ELSE nRequested
        /\ IF raised # None
           THEN /\ hist' = [n |-> 1, user_id |-> user_id,
                            conversation_id |-> conversation_id,
                            status |-> raised[1].status, body |-> raised[1].body]
                /\ UNCHANGED req
           ELSE /\ req' = [req EXCEPT ![r] = [pc |-> "get_messages", user_id |-> user_id,
                                              conversation_id |-> conversation_id]]
                /\ UNCHANGED hist
        /\ UNCHANGED <<dbvars, nStarted, lastCall>>

\* chat.py 261-271: the SELECT of get_messages, on the table as it is by now,
\* and the response
ReturnMessages(r) ==
    /\ hist.n = 0
    /\ req[r].pc = "get_messages"
    /\ \E resp \in MessageList(messages, req[r].conversation_id) :
         hist' = [n |-> 1, user_id |-> req[r].user_id,
                  conversation_id |-> req[r].conversation_id,
                  status |-> resp.status, body |-> resp.body]
    /\ req' = [req EXCEPT ![r] = IdleCall]
    /\ UNCHANGED <<dbvars, nStarted, nRequested, lastCall>>

MessagesEnv == [ChatEnv EXCEPT !.ticks = {1}, !.maxCalls = MaxLogMessages]

\* a call is given to session 1 when that session is free; a session that has
\* written the user message of a turn writes the turn's reply next; one read
\* is made
MessagesNext ==
    \/ \E r \in Reqs, u \in Users :
          /\ r = 1 \/ InProgress(2) # {}
          /\ OpenConversation(r, u, MessagesEnv)
    \/ \E r \in Reqs : CommitConversation(r)
    \/ \E r \in Reqs : ReturnConversation(r)
    \/ \E r \in Reqs, cid \in 1..MaxOpenConversations :
          IF HoldsUserMessage(r)
          THEN /\ req[r].row.conversation_id = cid
               /\ PostMessage(r, cid, "assistant", MessagesEnv)
          ELSE /\ r = 1 \/ InProgress(2) # {}
               /\ PostMessage(r, cid, "user", MessagesEnv)
    \/ \E r \in Reqs : CommitMessage(r)
    \/ \E r \in Reqs : RefreshMessage(r)
    \/ \E r \in Reqs, u \in Users, cid \in 0..(MaxOpenConversations + 1) :
          /\ r = 1 \/ InProgress(2) # {}
          /\ \A q \in Reqs : req[q].pc # "get_messages"
          /\ GetConversationMessages(r, u, cid)
    \/ \E r \in Reqs : ReturnMessages(r)

MessagesSpec == DirectInit /\ [][MessagesNext]_vars

----------------------------------------------------------------------------
(* ConcSpec: two chat requests in flight at once, each on a conversation of  *)
(* its own (the one it opened earlier, or a new one), their awaits           *)
(* interleaved in every order.  Both are alice's; the language model asks    *)
(* request 1 to add "milk" and request 2 to add "eggs", and its calls do not *)
(* fail.                                                                     *)

\* the tables after two turns of alice, each opening a conversation and answered
\* "Done." without a tool call (a state Spec reaches, see ReachesAfterTwoTurns)
AfterTwoTurns ==
    /\ conversations = (1 :> [user_id |-> "alice", created_at |-> 1, updated_at |-> 5])
                        @@ (2 :> [user_id |-> "alice", created_at |-> 6, updated_at |-> 10])
    /\ nextConvId = 3
    /\ messages = <<[conversation_id |-> 1, user_id |-> "alice", role |-> "user",
                     content |-> Text(1), created_at |-> 3],
                    [conversation_id |-> 1, user_id |-> "alice", role |-> "assistant",
                     content |-> "Done.", created_at |-> 4],
                    [conversation_id |-> 2, user_id |-> "alice", role |-> "user",
                     content |-> Text(2), created_at |-> 8],
                    [conversation_id |-> 2, user_id |-> "alice", role |-> "assistant",
                     content |-> "Done.", created_at |-> 9]>>
    /\ tasks = <<>>
    /\ nextTaskId = 1
    /\ clock = 10
    /\ nStarted = 2

ConcInit ==
    /\ AfterTwoTurns
    /\ req = [r \in Reqs |-> IdleReq]
    /\ nRequested = 0
    /\ lastCall = [n |-> 0]
    /\ hist = [n |-> 0]

ConcTitle(r) == IF r = 1 THEN "milk" ELSE "eggs"

ConcEnv(r) ==
    [ticks |-> {1},
     calls |-> {Call("add_task", "object", [NoArgs EXCEPT !.title = Some(ConcTitle(r))])},
     maxBatch |-> 1,
     maxCalls |-> MaxConcCalls,
     contents |-> {Some("Done.")},
     errors |-> {"Connection error."}]

\* request r arrives while the other may be anywhere in its turn
ConcReceive(r) ==
    \E conversation_id \in {None, Some(r)}, message \in Texts :
        /\ req[r].pc = "idle"
        /\ Receive(r, "alice", conversation_id, message)

ConcNext ==
    \E r \in Reqs :
        \/ ConcReceive(r)
        \/ GetOrCreateConversation(r, ConcEnv(r))
        \/ CreateConversation(r)
        \/ RefreshConversation(r)
        \/ LoadHistory(r, ConcEnv(r))
        \/ SaveUserMessage(r)
        \/ StartAgent(r)
        \/ ModelAnswers(r, ConcEnv(r))
        \/ ModelRequestsTools(r, ConcEnv(r))
        \/ ExecuteNextTool(r, ConcEnv(r))
        \/ CommitTool(r)
        \/ RefreshTool(r)
        \/ SaveAssistantMessage(r)
        \/ RefreshAssistant(r, ConcEnv(r))
        \/ TouchAndRespond(r)

ConcSpec == ConcInit /\ [][ConcNext]_vars

----------------------------------------------------------------------------
(* EditSpec: two requests of alice edit task 1 at the same time.  A tool     *)
(* call is three awaits on the request's own session: the SELECT that loads  *)
(* the row, the commit that flushes the attributes assigned since, and the   *)
(* refresh that reads the row back.  The awaits of the two requests          *)
(* interleave in every order.  req[r] holds the locals of r's tool call.     *)

EditFields == {"title", "description", "completed"}

EditCalls ==
    {[tool |-> "complete_task", title |-> None, description |-> None],
     [tool |-> "update_task", title |-> Some("eggs"), description |-> None],
     [tool |-> "update_task", title |-> Some("tea"), description |-> None],
     [tool |-> "update_task", title |-> None, description |-> Some("2 litres")]}

IdleEdit ==
    [pc |-> "idle", call |-> None,
     loaded |-> <<>>,      \* the rows of the session after the SELECT
     result |-> None,
     readAt |-> 0]         \* the number of commits made when the row was loaded

\* alice has one task; no request is in flight
EditInit ==
    /\ tasks = (1 :> [user_id |-> "alice", title |-> "milk", description |-> None,
                      completed |-> FALSE, created_at |-> 1])
    /\ nextTaskId = 2
    /\ conversations = <<>>
    /\ nextConvId = 1
    /\ messages = <<>>
    /\ clock = 1
    /\ req = [r \in Reqs |-> IdleEdit]
    /\ nStarted = 0
    /\ nRequested = 0
    /\ lastCall = [n |-> 0]
    /\ hist = [n |-> 0, commits |-> <<>>]

\* the session's rows after the tool's assignments, and the result it builds
EditOutcome(call, loaded) ==
    IF call.tool = "complete_task"
    THEN complete_task(loaded, nextTaskId, "alice", Some(1))
    ELSE update_task(loaded, nextTaskId, "alice", Some(1), call.title, call.description)

\* the attributes of the row that the tool's assignments changed: an attribute
\* assigned the value it was loaded with is not among them
Dirty(loaded, obj) == {f \in EditFields : obj[f] # loaded[f]}

\* the attributes the tool assigns (tools.py 133, 213-216)
Assigned(call) ==
    IF call.tool = "complete_task" THEN {"completed"}
    ELSE {f \in {"title", "description"} : call[f] # None}

\* tools.py 136, 219: `await session.commit()`.  The UPDATE sets the changed
\* attributes of the row, whatever the row holds by now: the SELECT (126-129,
\* 205-208) asks for no lock, and no statement compares what was loaded with
\* what is stored
Flush(t, id, loaded, obj) ==
    [t EXCEPT ![id] = [f \in DOMAIN t[id] |->
                          IF f \in Dirty(loaded, obj) THEN obj[f] ELSE t[id][f]]]

\* _execute_tool is entered for one of EditCalls
BeginEdit(r) ==
    /\ req[r].pc \in {"idle", "returned"}
    /\ nStarted < MaxEdits
    /\ nStarted' = nStarted + 1
    /\ \E call \in EditCalls :
         req' = [req EXCEPT ![r] = [IdleEdit EXCEPT !.pc = "select",
                                                    !.call = Some(call)]]
    /\ UNCHANGED <<dbvars, nRequested, lastCall, hist>>

\* tools.py 126-131 and 205-210: the row is loaded, or the call returns not found
SelectTask(r) ==
    /\ req[r].pc = "select"
    /\ LET task == FindTask(tasks, "alice", Some(1))
       IN  req' = IF task = None
                  THEN [req EXCEPT ![r].result =
                                       Some([error |-> "Task not found", task_id |-> Some(1)]),
                                   ![r].pc = "returned"]
                  ELSE [req EXCEPT ![r].loaded = (1 :> tasks[1]),
                                   ![r].readAt = Len(hist.commits),
                                   ![r].pc = "commit"]
    /\ UNCHANGED <<dbvars, nStarted, nRequested, lastCall, hist>>

\* tools.py 133-135 and 212-219: the assignments and the commit
CommitEdit(r) ==
    /\ req[r].pc = "commit"
    /\ \E out \in EditOutcome(req[r].call[1], req[r].loaded) :
         /\ tasks' = Flush(tasks, 1, req[r].loaded[1], out.tasks[1])
         /\ hist' = [hist EXCEPT !.commits =
                        Append(@, [r |-> r, readAt |-> req[r].readAt,
                                   assigned |-> [f \in Assigned(req[r].call[1])
                                                    |-> out.tasks[1][f]]])]
         /\ req' = [req EXCEPT ![r].result = Some(out.result), ![r].pc = "refresh"]
    /\ UNCHANGED <<nextTaskId, conversations, nextConvId, messages, clock, nStarted,
                   nRequested, lastCall>>

\* tools.py 136-142 and 220-226: the row is read back and the result returned
RefreshAndReturn(r) ==
    /\ req[r].pc = "refresh"
    /\ req' = [req EXCEPT ![r].result = Some([req[r].result[1] EXCEPT !.title = tasks[1].title]),
                          ![r].pc = "returned"]
    /\ UNCHANGED <<dbvars, nStarted, nRequested, lastCall, hist>>

EditNext ==
    \E r \in Reqs :
        \/ BeginEdit(r)
        \/ SelectTask(r)
        \/ CommitEdit(r)
        \/ RefreshAndReturn(r)

EditSpec == EditInit /\ [][EditNext]_vars

----------------------------------------------------------------------------
(* Properties *)

\* the requests whose process_message has returned
Returned(r) ==
    \/ req[r].pc \in {"save_assistant", "refresh_assistant", "touch"}
    \/ req[r].pc = "done" /\ req[r].faultAt \in {"", "save_assistant", "refresh_assistant",
                                                  "touch", "respond"}

\* the current batch of request r
Batch(r) == req[r].assistant_message.tool_calls

\* the tool-result entries of request r's transcript, in order
ToolEntries(r) == SelectSeq(req[r].messages, LAMBDA m : m.role = "tool")

\* the assistant entries of request r's transcript that carry tool calls
BatchEntries(r) == SelectSeq(req[r].messages, LAMBDA m : "tool_calls" \in DOMAIN m)

IsPrefix(s, t) == Len(s) <= Len(t) /\ s = SubSeq(t, 1, Len(s))

\* C1: every turn reaches its end after at most a fixed maximum number of model
\* calls (IterationLimit), whatever the model answers.
C1_ModelCallsBounded ==
    \A r \in Reqs : req[r].nModelCalls <= IterationLimit

\* C2: within one turn the tool calls run one at a time in the order the model
\* listed them, batch by batch, and the trace holds exactly one (tool, input,
\* result) record per executed invocation, in execution order.
C2_TraceIsExecutionOrder ==
    \A r \in Reqs :
        LET trace == req[r].tool_calls_made
            done == req[r].executed
        IN  /\ IsPrefix(done, req[r].requested)
            /\ req[r].pc \in {"tools", "tool_commit", "tool_refresh"} =>
                  Len(done) = Len(req[r].requested) - Len(Batch(r)) + req[r].i - 1
            /\ req[r].pc = "model" => done = req[r].requested
            /\ Len(trace) = Len(done)
            /\ Len(ToolEntries(r)) = Len(done)
            /\ \A k \in 1..Len(trace) :
                  /\ trace[k].tool = done[k].name
                  /\ trace[k].input = JsonLoads(done[k].arguments).value
                  /\ ToolEntries(r)[k].tool_call_id = done[k].id
                  /\ ToolEntries(r)[k].content = JsonDumps(trace[k].result)
            /\ Returned(r) => req[r].result.tool_calls = trace

C2_Witness ==
    \E r \in Reqs :
        /\ req[r].pc = "done"
        /\ req[r].response.status = 200
        /\ Len(req[r].response.tool_calls) = 2
        /\ req[r].response.tool_calls[1].tool = "add_task"
        /\ req[r].response.tool_calls[2].tool = "complete_task"
        /\ "status" \in DOMAIN req[r].response.tool_calls[2].result

\* C3: when the model call or the parsing of a tool call's arguments fails,
\* process_message returns the apologetic response embedding the error text and
\* the trace of every tool call completed before the failure; the effects of
\* those calls on the tasks table stay, and the calls listed after the failing
\* one are not run.
C3_AbortKeepsProgress ==
    \A r \in Reqs :
        (Returned(r) /\ "error" \in DOMAIN req[r].result) =>
            LET res == req[r].result
                done == req[r].executed
            IN  /\ res.response = "I encountered an error: " \o res.error
                                  \o ". Please try again."
                /\ Len(res.tool_calls) = Len(done)
                /\ \A k \in 1..Len(done) :
                      /\ res.tool_calls[k].tool = done[k].name
                      /\ res.tool_calls[k].input = JsonLoads(done[k].arguments).value
                /\ IsPrefix(done, req[r].requested)
                /\ req[r].i > 0 =>
                      Len(done) = Len(req[r].requested) - Len(Batch(r)) + req[r].i - 1
                /\ req[r].i = 0 => done = req[r].requested
                /\ tasks = req[r].tasks1

C3_Witness ==
    \E r \in Reqs :
        /\ req[r].pc = "done"
        /\ req[r].response.status = 200
        /\ "error" \in DOMAIN req[r].result
        /\ Len(req[r].response.tool_calls) = 1
        /\ req[r].response.tool_calls[1].tool = "add_task"
        /\ Len(req[r].requested) = 2
        /\ req[r].requested[2].arguments.kind = "malformed"
        /\ DOMAIN tasks = {1}

\* C4 as stated: a reply without tool calls ends the loop at once and the
\* response is exactly the text of that reply.
C4_ResponseIsReplyText ==
    \A r \in Reqs :
        (Returned(r) /\ "error" \notin DOMAIN req[r].result) =>
            /\ Batch(r) = <<>>
            /\ req[r].nModelCalls = Len(BatchEntries(r)) + 1
            /\ req[r].executed = req[r].requested
            /\ Some(req[r].result.response) = req[r].assistant_message.content

\* C4 as amended: a reply without tool calls ends the loop at once (it is the
\* last model call, and no tool runs after it); the response is the text of that
\* reply, or "I processed your request." when the reply has no text.
C4_ResponseIsReplyTextOrDefault ==
    \A r \in Reqs :
        (Returned(r) /\ "error" \notin DOMAIN req[r].result) =>
            LET content == req[r].assistant_message.content
            IN  /\ Batch(r) = <<>>
                /\ req[r].nModelCalls = Len(BatchEntries(r)) + 1
                /\ req[r].executed = req[r].requested
                /\ req[r].result.response =
                      IF content \in {None, Some("")} THEN DEFAULT_REPLY ELSE content[1]

C4_Witness ==
    \E r \in Reqs :
        /\ req[r].pc = "done"
        /\ req[r].response.status = 200
        /\ req[r].nModelCalls = 2
        /\ req[r].assistant_message.content = None
        /\ req[r].response.response = DEFAULT_REPLY

\* the user and assistant messages of a conversation, in the order they were written
Dialogue(m, conversation_id) ==
    LET rows == SelectSeq([id \in 1..Len(m) |-> m[id]],
                          LAMBDA x : x.conversation_id = conversation_id
                                     /\ x.role \in {"user", "assistant"})
    IN  [k \in 1..Len(rows) |-> [role |-> rows[k].role, content |-> rows[k].content]]

\* the ids S of table m in ascending created_at, rows of equal created_at in
\* ascending id
RECURSIVE InCreationOrder(_, _)
InCreationOrder(m, S) ==
    IF S = {} THEN <<>>
    ELSE LET first == CHOOSE id \in S :
                          \A k \in S : \/ m[id].created_at < m[k].created_at
                                       \/ m[id].created_at = m[k].created_at /\ id <= k
         IN  <<first>> \o InCreationOrder(m, S \ {first})

\* the user and assistant messages of a conversation in creation order, as
\* {role, content} entries
Chronicle(m, conversation_id) ==
    LET ids == InCreationOrder(m, {id \in 1..Len(m) :
                                     /\ m[id].conversation_id = conversation_id
                                     /\ m[id].role \in {"user", "assistant"}})
    IN  [k \in 1..Len(ids) |-> [role |-> m[ids[k]].role, content |-> m[ids[k]].content]]

\* the last n entries of s
Recent(s, n) == IF Len(s) <= n THEN s ELSE SubSeq(s, Len(s) - n + 1, Len(s))

\* C5: the history fed to the model is the conversation's user and assistant
\* messages in creation order, and the most recent `limit` of them when there are
\* more.
C5_HistoryIsMostRecent ==
    hist.n > 0 =>
        hist.result = Recent(Chronicle(messages, hist.conversation_id), hist.limit)

\* the step is the commit of the direct call in flight in session r
Commits(r) == req[r].pc = "tool_commit" /\ req'[r].pc # "tool_commit"

\* C6: a task operation run for one owner leaves every other owner's tasks as
\* they were, creates tasks for its owner only, lists its owner's tasks only, and
\* answers NotFound to complete, delete and update on another owner's task id;
\* this whatever other calls are in flight.
C6_TaskIsolation ==
    [][/\ \A r \in Reqs :
             Commits(r) =>
                 /\ \A id \in DOMAIN tasks :
                       tasks[id].user_id # req[r].user_id =>
                           id \in DOMAIN tasks' /\ tasks'[id] = tasks[id]
                 /\ \A id \in DOMAIN tasks' \ DOMAIN tasks :
                       tasks'[id].user_id = req[r].user_id
       /\ (\A r \in Reqs : ~Commits(r)) => tasks' = tasks
       /\ lastCall' # lastCall =>
             LET call == lastCall'
                 before == call.before
                 mine(id) == before[id].user_id = call.user_id
             IN  /\ "tasks" \in DOMAIN call.result =>
                       \A k \in 1..Len(call.result.tasks) :
                           LET id == call.result.tasks[k].id
                           IN  id \in DOMAIN before /\ mine(id)
                 /\ ( /\ call.tool_name \in {"complete_task", "delete_task", "update_task"}
                      /\ call.tool_args.task_id # None
                      /\ call.tool_args.task_id[1] \in DOMAIN before
                      /\ ~mine(call.tool_args.task_id[1]) ) =>
                       call.result = [error |-> "Task not found",
                                      task_id |-> call.tool_args.task_id]]_vars

C6_Witness ==
    /\ lastCall.n > 0
    /\ lastCall.tool_name = "delete_task"
    /\ lastCall.user_id = "alice"
    /\ lastCall.tool_args.task_id = Some(1)
    /\ 1 \in DOMAIN tasks
    /\ tasks[1].user_id = "bob"
    /\ "error" \in DOMAIN lastCall.result

\* request r named a conversation that belongs to another user, and
\* get_or_create_conversation has returned
NamesForeignConversation(r) ==
    /\ req[r].conv # 0
    /\ req[r].conversation_id # None
    /\ req[r].conversation_id[1] \in DOMAIN conversations
    /\ conversations[req[r].conversation_id[1]].user_id # req[r].user_id

\* C7: a chat turn that names another owner's conversation creates a new
\* conversation of the caller, writes no message into the other owner's
\* conversation, feeds the model none of its messages and returns the new id.
C7_ConversationIsolation ==
    \A r \in Reqs :
        NamesForeignConversation(r) =>
            LET foreign == req[r].conversation_id[1]
                conv == req[r].conv
            IN  /\ conv # foreign
                /\ conv \in DOMAIN conversations
                /\ conversations[conv].user_id = req[r].user_id
                /\ \A id \in 1..Len(req[r].messages0) :
                      req[r].messages0[id].conversation_id # conv
                /\ IsPrefix(req[r].messages0, messages)
                /\ \A id \in (Len(req[r].messages0) + 1)..Len(messages) :
                      messages[id].conversation_id = conv
                /\ req[r].history = <<>>
                /\ req[r].messages # <<>> =>
                      /\ req[r].messages[1].role = "system"
                      /\ req[r].messages[2] = [role |-> "user", content |-> req[r].message]
                /\ (req[r].pc = "done" /\ req[r].response.status = 200) =>
                      req[r].response.conversation_id = conv

C7_Witness ==
    \E r \in Reqs :
        /\ NamesForeignConversation(r)
        /\ req[r].pc = "done"
        /\ req[r].response.status = 200
        /\ \E id \in 1..Len(req[r].messages0) :
              req[r].messages0[id].conversation_id = req[r].conversation_id[1]

\* C8: every tool call of a turn runs for the user id the caller of
\* process_message supplied: the rows it writes, deletes or returns belong to
\* that user, also when the model's arguments carry another user's id.
C8_OwnerIsCaller ==
    \A r \in Reqs :
        /\ Len(req[r].owners) = Len(req[r].executed)
        /\ \A k \in 1..Len(req[r].owners) : req[r].owners[k] \subseteq {req[r].user_id}

C8_Witness ==
    \E r \in Reqs :
        \E k \in 1..Len(req[r].executed) :
            /\ req[r].executed[k].arguments.kind = "object"
            /\ req[r].executed[k].arguments.obj.user_id \notin {None, Some(req[r].user_id)}
            /\ req[r].owners[k] = {req[r].user_id}

\* the row add_message writes, but for its timestamp
Row(m) == [conversation_id |-> m.conversation_id, user_id |-> m.user_id,
           role |-> m.role, content |-> m.content]

\* C9: a chat turn that returns a successful response has appended exactly two
\* messages, both to the resolved conversation: the user message with the
\* request's text, then the assistant message with the response's text.
C9_TurnAppendsTwoMessages ==
    \A r \in Reqs :
        (req[r].pc = "done" /\ req[r].response.status = 200) =>
            LET n0 == Len(req[r].messages0)
                conv == req[r].response.conversation_id
            IN  /\ Len(messages) = n0 + 2
                /\ IsPrefix(req[r].messages0, messages)
                /\ conv = req[r].conv
                /\ Row(messages[n0 + 1]) =
                      [conversation_id |-> conv, user_id |-> req[r].user_id,
                       role |-> "user", content |-> req[r].message]
                /\ Row(messages[n0 + 2]) =
                      [conversation_id |-> conv, user_id |-> req[r].user_id,
                       role |-> "assistant", content |-> req[r].response.response]

\* the tables of AfterTurnOfBob are reached by the chat turns of Spec
ReachesAfterTurnOfBob ==
    \E r \in Reqs : req[r].pc = "done" /\ AfterTurnOfBob

C9_Witness ==
    \E r \in Reqs :
        /\ req[r].pc = "done"
        /\ req[r].response.status = 200
        /\ Len(req[r].messages0) = 2
        /\ req[r].messages0[1].conversation_id # req[r].conv
        /\ Len(req[r].response.tool_calls) > 0

\* C10: a fault raised in chat() after the user message was persisted ends the
\* request with status 500; the conversation, the user message and the effects
\* of the turn's tool calls stay persisted.
C10_FaultKeepsCommitted ==
    \A r \in Reqs :
        (req[r].pc = "done" /\ req[r].faultAt \in {"agent", "save_assistant",
                                                    "refresh_assistant", "touch",
                                                    "respond"}) =>
            LET n0 == Len(req[r].messages0)
            IN  /\ req[r].response.status = 500
                /\ req[r].conv \in DOMAIN conversations
                /\ conversations[req[r].conv].user_id = req[r].user_id
                /\ IsPrefix(req[r].messages0, messages)
                /\ Len(messages) > n0
                /\ Row(messages[n0 + 1]) =
                      [conversation_id |-> req[r].conv, user_id |-> req[r].user_id,
                       role |-> "user", content |-> req[r].message]
                /\ tasks = req[r].tasks1

C10_Witness ==
    \E r \in Reqs :
        /\ req[r].pc = "done"
        /\ req[r].response.status = 500
        /\ req[r].faultAt = "save_assistant"
        /\ Len(req[r].executed) > 0
        /\ req[r].executed[1].name = "add_task"
        /\ req[r].messages0 = <<>>
        /\ Len(messages) = 1
        /\ DOMAIN tasks = {1}

\* the model call of request r raised, and process_message returned its report
ModelCallFailed(r) ==
    /\ "error" \in DOMAIN req[r].result
    /\ req[r].result.error \in TurnEnv.errors

\* C11 as stated: a failed model call gives status 200 with the error-flavoured
\* reply when a tool call of the turn had completed, and status 500 when none had.
C11_ModelFailureStatusByProgress ==
    \A r \in Reqs :
        (req[r].pc = "done" /\ req[r].faultAt = "" /\ ModelCallFailed(r)) =>
            req[r].response.status = IF req[r].executed # <<>> THEN 200 ELSE 500

\* C11 as amended: a failed model call gives status 200 with the error-flavoured
\* reply and the trace, whether or not a tool call had completed; a turn ends with
\* status 500 only when one of chat()'s own steps raised.
C11_ModelFailureIsReported ==
    \A r \in Reqs :
        req[r].pc = "done" =>
            /\ (req[r].faultAt = "" /\ ModelCallFailed(r)) =>
                  /\ req[r].response.status = 200
                  /\ req[r].response.response =
                        "I encountered an error: " \o req[r].result.error
                        \o ". Please try again."
                  /\ Len(req[r].response.tool_calls) = Len(req[r].executed)
            /\ req[r].response.status = 500 =>
                  req[r].faultAt \in FaultPoints \cup {"respond"}

C11_Witness ==
    \E r \in Reqs :
        /\ req[r].pc = "done"
        /\ ModelCallFailed(r)
        /\ req[r].nModelCalls = 1
        /\ req[r].executed = <<>>
        /\ req[r].response.status = 200

\* request r is about to run a call whose arguments parse and whose tool name is
\* outside the registry
AtUnknownTool(r) ==
    /\ req[r].pc = "tools"
    /\ Batch(r)[req[r].i].name \notin KnownTools
    /\ JsonLoads(Batch(r)[req[r].i].arguments).ok

\* C12: running a call to a tool outside the registry yields the result
\* {error: "Unknown tool: <name>"}, leaves the tasks table as it was, appends the
\* record to the trace and the result to the transcript, and the loop goes on
\* with the next call of the batch or, after the last one, the next model call.
C12_UnknownToolContinues ==
    [][\A r \in Reqs :
          (AtUnknownTool(r) /\ req'[r] # req[r]) =>
              LET tool_call == Batch(r)[req[r].i]
                  result == [error |-> "Unknown tool: " \o tool_call.name]
                  last == req[r].i = Len(Batch(r))
              IN  /\ tasks' = tasks
                  /\ nextTaskId' = nextTaskId
                  /\ req'[r].tool_calls_made =
                        Append(req[r].tool_calls_made,
                               [tool |-> tool_call.name,
                                input |-> JsonLoads(tool_call.arguments).value,
                                result |-> result])
                  /\ req'[r].messages =
                        Append(req[r].messages,
                               [role |-> "tool", tool_call_id |-> tool_call.id,
                                content |-> JsonDumps(result)])
                  /\ req'[r].assistant_message = req[r].assistant_message
                  /\ req'[r].pc = IF last THEN "model" ELSE "tools"
                  /\ ~last => req'[r].i = req[r].i + 1]_vars

C12_Witness ==
    \E r \in Reqs :
        /\ req[r].pc = "done"
        /\ req[r].response.status = 200
        /\ req[r].nModelCalls = 2
        /\ Len(req[r].response.tool_calls) = 2
        /\ req[r].response.tool_calls[1] =
              [tool |-> "purge_tasks", input |-> [kind |-> "object", obj |-> NoArgs],
               result |-> [error |-> "Unknown tool: purge_tasks"]]
        /\ req[r].response.tool_calls[2].tool = "add_task"
        /\ "status" \in DOMAIN req[r].response.tool_calls[2].result

\* request r is about to run complete, delete or update on a task id for which
\* its user has no task
AtMissingTask(r) ==
    /\ req[r].pc = "tools"
    /\ LET tool_call == Batch(r)[req[r].i]
       IN  /\ tool_call.name \in {"complete_task", "delete_task", "update_task"}
           /\ tool_call.arguments.kind = "object"
           /\ \A id \in DOMAIN tasks :
                 tool_call.arguments.obj.task_id = Some(id) =>
                     tasks[id].user_id # req[r].user_id

\* C13: complete, delete or update on a task id for which the owner has no task
\* yields the inline result {error: "Task not found", task_id: id}, leaves the
\* tasks table as it was, and does not abort the loop: the record joins the
\* trace, the result joins the transcript, and the loop goes on with the next
\* call of the batch or the next model call.
C13_NotFoundIsInline ==
    [][\A r \in Reqs :
          (AtMissingTask(r) /\ req'[r] # req[r]) =>
              LET tool_call == Batch(r)[req[r].i]
                  result == [error |-> "Task not found",
                             task_id |-> tool_call.arguments.obj.task_id]
                  last == req[r].i = Len(Batch(r))
              IN  /\ tasks' = tasks
                  /\ nextTaskId' = nextTaskId
                  /\ req'[r].tool_calls_made =
                        Append(req[r].tool_calls_made,
                               [tool |-> tool_call.name,
                                input |-> JsonLoads(tool_call.arguments).value,
                                result |-> result])
                  /\ req'[r].messages =
                        Append(req[r].messages,
                               [role |-> "tool", tool_call_id |-> tool_call.id,
                                content |-> JsonDumps(result)])
                  /\ req'[r].pc = IF last THEN "model" ELSE "tools"
                  /\ ~last => req'[r].i = req[r].i + 1]_vars

C13_Witness ==
    \E r \in Reqs :
        /\ req[r].pc = "done"
        /\ req[r].response.status = 200
        /\ req[r].user_id = "alice"
        /\ 1 \in DOMAIN tasks /\ tasks[1].user_id = "bob"
        /\ Len(req[r].response.tool_calls) = 2
        /\ req[r].response.tool_calls[1].tool = "update_task"
        /\ req[r].response.tool_calls[1].result =
              [error |-> "Task not found", task_id |-> Some(1)]
        /\ req[r].response.tool_calls[2].tool = "complete_task"
        /\ req[r].response.tool_calls[2].result =
              [error |-> "Task not found", task_id |-> Some(1)]
        /\ req[r].response.response = "Done."

\* the last direct call was list_tasks with this status argument
Listed(status) ==
    /\ lastCall.n > 0
    /\ lastCall.tool_name = "list_tasks"
    /\ lastCall.tool_args.status \in status

\* C15: list_tasks(owner, all) holds each task of the owner that is in the table
\* (created and not deleted) exactly once, list_tasks(owner, pending) holds it
\* iff it is not completed, list_tasks(owner, completed) iff it is completed;
\* each item shows the row's title and completion flag, and count is the number
\* of items.
C15_ListMembership ==
    Listed({None, Some("all"), Some("pending"), Some("completed")}) =>
        LET before == lastCall.before
            items == lastCall.result.tasks
            status == lastCall.tool_args.status
            Expected(id) ==
                CASE status = Some("pending") -> ~before[id].completed
                  [] status = Some("completed") -> before[id].completed
                  [] OTHER -> TRUE
        IN  /\ "error" \notin DOMAIN lastCall.result
            /\ lastCall.result.count = Len(items)
            /\ \A id \in DOMAIN before :
                  before[id].user_id = lastCall.user_id =>
                      Cardinality({k \in 1..Len(items) : items[k].id = id})
                          = IF Expected(id) THEN 1 ELSE 0
            /\ \A k \in 1..Len(items) :
                  /\ items[k].id \in DOMAIN before
                  /\ items[k].title = before[items[k].id].title
                  /\ items[k].completed = before[items[k].id].completed

C15_Witness ==
    /\ Listed({Some("pending")})
    /\ lastCall.result.count = 0
    /\ \E id \in DOMAIN lastCall.before :
          /\ lastCall.before[id].user_id = lastCall.user_id
          /\ lastCall.before[id].completed

\* the last direct call was complete_task on a task of the caller that is in the table
CompletedExisting ==
    /\ lastCall.n > 0
    /\ lastCall.tool_name = "complete_task"
    /\ lastCall.tool_args.task_id # None
    /\ lastCall.tool_args.task_id[1] \in DOMAIN lastCall.before
    /\ lastCall.before[lastCall.tool_args.task_id[1]].user_id = lastCall.user_id

\* C16: complete on an existing task of the caller, no other call being in
\* flight, returns status "completed" with the task's current title and no
\* error, the first time and every time after; the call sets the completion
\* flag and changes nothing else, so a second call leaves flag, title and
\* description of every task as the first left them.
C16_CompleteIsIdempotent ==
    CompletedExisting /\ lastCall.alone =>
        LET id == lastCall.tool_args.task_id[1]
            before == lastCall.before
        IN  /\ lastCall.result = [task_id |-> Some(id), status |-> "completed",
                                  title |-> before[id].title]
            /\ lastCall.after = [before EXCEPT ![id].completed = TRUE]
            /\ before[id].completed => lastCall.after = before

C16_Witness ==
    /\ CompletedExisting
    /\ lastCall.alone
    /\ lastCall.before[lastCall.tool_args.task_id[1]].completed
    /\ lastCall.result.status = "completed"

\* the last direct call was add_task with an empty title, or with none at all
AddedWithoutTitle ==
    /\ lastCall.n > 0
    /\ lastCall.tool_name = "add_task"
    /\ lastCall.tool_args.title \in {None, Some("")}

\* C17: add_task with an empty title, or without a title argument, returns an
\* error result (the validation error, reported inline), and adds no task to
\* the table.
C17_EmptyTitleIsRejected ==
    (AddedWithoutTitle /\ lastCall.alone) =>
        /\ DOMAIN lastCall.result = {"error"}
        /\ lastCall.after = lastCall.before

\* the last direct call was update_task on a task of the caller that is in the table
UpdatedExisting ==
    /\ lastCall.n > 0
    /\ lastCall.tool_name = "update_task"
    /\ lastCall.tool_args.task_id # None
    /\ lastCall.tool_args.task_id[1] \in DOMAIN lastCall.before
    /\ lastCall.before[lastCall.tool_args.task_id[1]].user_id = lastCall.user_id

\* C18: update on an existing task of the caller, no other call being in
\* flight, sets the title if one was supplied and the description if one was
\* supplied; an omitted field keeps its value, the completion flag, the owner and
\* the creation time are kept, no other task changes, and the result is
\* {task_id, status "updated", title}.
C18_UpdateChangesSuppliedFieldsOnly ==
    UpdatedExisting /\ lastCall.alone =>
        LET id == lastCall.tool_args.task_id[1]
            before == lastCall.before
            after == lastCall.after
            args == lastCall.tool_args
        IN  /\ DOMAIN after = DOMAIN before
            /\ \A k \in DOMAIN before \ {id} : after[k] = before[k]
            /\ after[id].title =
                  IF args.title = None THEN before[id].title ELSE args.title[1]
            /\ after[id].description =
                  IF args.description = None THEN before[id].description
                  ELSE args.description
            /\ after[id].completed = before[id].completed
            /\ after[id].user_id = before[id].user_id
            /\ after[id].created_at = before[id].created_at
            /\ lastCall.result = [task_id |-> Some(id), status |-> "updated",
                                  title |-> after[id].title]

C18_Witness ==
    /\ UpdatedExisting
    /\ lastCall.alone
    /\ lastCall.tool_args.title = Some("bread")
    /\ lastCall.tool_args.description = None
    /\ LET id == lastCall.tool_args.task_id[1]
       IN  /\ lastCall.before[id].title = "milk"
           /\ lastCall.before[id].description = Some("2 litres")
           /\ lastCall.after[id].title = "bread"
           /\ lastCall.after[id].description = Some("2 litres")

\* record k of a trace reports a successful call of this tool
Succeeded(trace, k, tool) ==
    /\ trace[k].tool = tool
    /\ "status" \in DOMAIN trace[k].result

\* the ids of the items a list_tasks record returned
ListedIds(rec) == {rec.result.tasks[n].id : n \in 1..Len(rec.result.tasks)}

\* C19: within a turn each tool call sees the committed effects of the calls run
\* before it, those of its own batch included: a list after a create holds the
\* created task (unless it was deleted in between), and after a successful
\* delete, complete / update / delete on that id answer NotFound and no list
\* holds it; a list after a complete shows the task completed.
C19_LaterCallsSeeEarlierEffects ==
    \A r \in Reqs :
        LET trace == req[r].tool_calls_made
        IN  \A k, j \in 1..Len(trace) :
                k < j =>
                    /\ ( /\ Succeeded(trace, k, "add_task")
                         /\ trace[j].tool = "list_tasks"
                         /\ \A m \in (k + 1)..(j - 1) :
                               ~( /\ Succeeded(trace, m, "delete_task")
                                  /\ trace[m].result.task_id = trace[k].result.task_id ) ) =>
                           trace[k].result.task_id[1] \in ListedIds(trace[j])
                    /\ Succeeded(trace, k, "delete_task") =>
                           /\ ( /\ trace[j].tool \in {"complete_task", "delete_task",
                                                       "update_task"}
                                /\ trace[j].input.obj.task_id = trace[k].result.task_id ) =>
                                  trace[j].result = [error |-> "Task not found",
                                                     task_id |-> trace[k].result.task_id]
                           /\ trace[j].tool = "list_tasks" =>
                                  trace[k].result.task_id[1] \notin ListedIds(trace[j])
                    /\ ( /\ Succeeded(trace, k, "complete_task")
                         /\ trace[j].tool = "list_tasks" ) =>
                           \A n \in 1..Len(trace[j].result.tasks) :
                               Some(trace[j].result.tasks[n].id) = trace[k].result.task_id =>
                                   trace[j].result.tasks[n].completed

C19_Witness ==
    \E r \in Reqs :
        LET trace == req[r].tool_calls_made
        IN  /\ req[r].pc = "done"
            /\ req[r].response.status = 200
            /\ req[r].nModelCalls = 2
            /\ Len(trace) = 2
            /\ Succeeded(trace, 1, "add_task")
            /\ trace[2].tool = "list_tasks"
            /\ trace[1].result.task_id[1] \in ListedIds(trace[2])

\* request r names a conversation that exists and belongs to its user
NamesOwnConversation(r) ==
    /\ req[r].conversation_id # None
    /\ req[r].conversation_id[1] \in DOMAIN conversations
    /\ conversations[req[r].conversation_id[1]].user_id = req[r].user_id

\* the step in which request r, not raising, leaves get_conversation's SELECT
Resolves(r) == req[r].pc = "resolve" /\ req'[r].pc \notin {"resolve", "done"}

\* the step in which request r commits the conversation it has built
Creates(r) == req[r].pc = "create" /\ req'[r].pc \notin {"create", "done"}

\* C20: a turn that names an existing conversation of the caller resolves to it
\* and creates none; a turn that names none creates exactly one, owned by the
\* caller; no other step creates a conversation.  The messages of a successful
\* turn that named the caller's conversation are appended to it and the response
\* carries its id.
C20_ConversationReuse ==
    /\ [][/\ \A r \in Reqs :
               /\ Resolves(r) =>
                     /\ conversations' = conversations
                     /\ nextConvId' = nextConvId
                     /\ NamesOwnConversation(r) =>
                           /\ req'[r].pc = "history"
                           /\ req'[r].conv = req[r].conversation_id[1]
                     /\ req[r].conversation_id = None => req'[r].pc = "create"
               /\ Creates(r) =>
                     LET conv == req'[r].conv
                     IN  /\ ~NamesOwnConversation(r)
                         /\ conv \notin DOMAIN conversations
                         /\ DOMAIN conversations' = DOMAIN conversations \cup {conv}
                         /\ conversations'[conv].user_id = req[r].user_id
                         /\ \A c \in DOMAIN conversations :
                               conversations'[c] = conversations[c]
               /\ (req[r].pc # "create" /\ req'[r].pc = "create") => Resolves(r)
               /\ (req[r].pc = "create" /\ req'[r].pc = "done") =>
                     req'[r].response.status = 500
          /\ (\A r \in Reqs : ~Creates(r)) =>
                 DOMAIN conversations' = DOMAIN conversations]_vars
    /\ [](\A r \in Reqs :
             (req[r].pc = "done" /\ req[r].response.status = 200
              /\ NamesOwnConversation(r)) =>
                 LET id == req[r].conversation_id[1]
                     n0 == Len(req[r].messages0)
                 IN  /\ req[r].response.conversation_id = id
                     /\ Len(messages) = n0 + 2
                     /\ messages[n0 + 1].conversation_id = id
                     /\ messages[n0 + 1].role = "user"
                     /\ messages[n0 + 2].conversation_id = id
                     /\ messages[n0 + 2].role = "assistant")

C20_Witness ==
    \E r \in Reqs :
        /\ req[r].pc = "done"
        /\ req[r].response.status = 200
        /\ req[r].conversation_id = Some(1)
        /\ req[r].response.conversation_id = 1
        /\ DOMAIN conversations = {1}
        /\ Len(req[r].messages0) = 2
        /\ Len(messages) = 4
        /\ \A id \in 1..4 : messages[id].conversation_id = 1

\* C21: the message log is append-only: no step of a chat turn or of a tool
\* removes a persisted message or changes its conversation, owner, role,
\* content or creation time; the table, and with it every conversation's log,
\* only grows.
C21_MessagesAppendOnly ==
    [][/\ Len(messages') >= Len(messages)
       /\ \A id \in 1..Len(messages) : messages'[id] = messages[id]]_vars

C21_Witness ==
    \E r \in Reqs :
        /\ req[r].pc = "done"
        /\ Len(req[r].messages0) = 2
        /\ Len(messages) = 4
        /\ req[r].executed # <<>>
        /\ messages[3].conversation_id = messages[1].conversation_id

\* C22: the messages of a conversation are returned, and fed to the model, in
\* ascending creation time with ties broken by insertion id: rows that carry the
\* same created_at come in the order they were inserted.
C22_TiesInInsertionOrder ==
    hist.n > 0 =>
        hist.result = Limit(Chronicle(messages, hist.conversation_id), hist.limit)

\* the turn of request r has persisted its assistant reply and refreshed the
\* conversation's updated_at after it
TurnRefreshed(r) ==
    LET n0 == Len(req[r].messages0)
    IN  /\ req[r].conv \in DOMAIN conversations
        /\ Len(messages) >= n0 + 2
        /\ messages[n0 + 2].role = "assistant"
        /\ conversations[req[r].conv].updated_at > messages[n0 + 2].created_at

\* the step in which request r refreshes updated_at of conversation c: the
\* assistant reply is in the table, and the response is produced in this step
Touches(r, c) ==
    LET n0 == Len(req[r].messages0)
    IN  /\ req[r].pc = "touch"
        /\ req'[r].pc = "done"
        /\ req[r].conv = c
        /\ Len(messages) = n0 + 2
        /\ messages[n0 + 2].conversation_id = c
        /\ messages[n0 + 2].role = "assistant"
        /\ messages[n0 + 2].content = req[r].result.response
        /\ req[r].stamp # <<>>
        /\ conversations' = [conversations EXCEPT ![c].updated_at = req[r].stamp[1]]
        /\ req'[r].response.status \in {200, 500}

\* C23: a conversation row is written only by the touch step of a turn, which
\* comes after the turn's assistant reply was persisted, produces the response
\* and ends the turn (so once per turn, and before the response is returned);
\* every turn that returns its reply has refreshed updated_at, to a time after
\* the reply was stored.
C23_RefreshOnceAfterReply ==
    /\ [][\A c \in DOMAIN conversations :
              conversations'[c] # conversations[c] => \E r \in Reqs : Touches(r, c)]_vars
    /\ [](\A r \in Reqs :
             (req[r].pc = "done" /\ req[r].response.status = 200) => TurnRefreshed(r))

C23_Witness ==
    \E r \in Reqs :
        /\ req[r].pc = "done"
        /\ req[r].response.status = 200
        /\ req[r].conversation_id = Some(1)
        /\ req[r].conv = 1
        /\ Len(req[r].messages0) = 2
        /\ TurnRefreshed(r)
        /\ conversations[1].updated_at = clock
        /\ conversations[1].created_at < req[r].messages0[1].created_at

\* the caller of the read recorded in hist may see the conversation it names
ReadableByCaller ==
    /\ hist.conversation_id \in DOMAIN conversations
    /\ conversations[hist.conversation_id].user_id = hist.user_id

\* C24: get-messages answers 404 with no message content when the conversation
\* does not exist or belongs to another user; otherwise every entry it returns
\* is a message of that conversation.
C24_MessagesOfOwnConversationOnly ==
    hist.n > 0 =>
        IF ReadableByCaller
        THEN /\ hist.status = 200
             /\ \A k \in 1..Len(hist.body) :
                   /\ hist.body[k].id \in 1..Len(messages)
                   /\ messages[hist.body[k].id].conversation_id = hist.conversation_id
                   /\ hist.body[k].role = messages[hist.body[k].id].role
                   /\ hist.body[k].content = messages[hist.body[k].id].content
        ELSE /\ hist.status = 404
             /\ hist.body = [detail |-> "Conversation not found"]

C24_Witness ==
    /\ hist.n > 0
    /\ hist.conversation_id \in DOMAIN conversations
    /\ conversations[hist.conversation_id].user_id # hist.user_id
    /\ \E id \in 1..Len(messages) : messages[id].conversation_id = hist.conversation_id
    /\ \E c \in DOMAIN conversations : conversations[c].user_id = hist.user_id
    /\ hist.status = 404

\* transcript t: every assistant entry with tool calls is followed by one tool
\* entry per call, in order, each carrying that call's id, and by no other tool
\* entry
WellFormed(t) ==
    \A j \in 1..Len(t) :
        ("tool_calls" \in DOMAIN t[j] /\ t[j].tool_calls # <<>>) =>
            LET n == Len(t[j].tool_calls)
            IN  /\ j + n <= Len(t)
                /\ \A k \in 1..n :
                      /\ t[j + k].role = "tool"
                      /\ t[j + k].tool_call_id = t[j].tool_calls[k].id
                /\ j + n < Len(t) => t[j + n + 1].role # "tool"

\* C25: within a turn the transcript only grows by appending, and whenever a
\* model call after the first is about to be made, every assistant entry with
\* tool calls is immediately followed by exactly one tool entry per call, in
\* order, each tagged with the id of the call it answers.
C25_TranscriptWellFormed ==
    /\ [][\A r \in Reqs :
              req[r].pc \notin {"idle", "done"} =>
                  IsPrefix(req[r].messages, req'[r].messages)]_vars
    /\ [](\A r \in Reqs :
             (req[r].pc = "model" /\ req[r].nModelCalls >= 1) =>
                 WellFormed(req[r].messages))

C25_Witness ==
    \E r \in Reqs :
        /\ req[r].pc = "model"
        /\ req[r].nModelCalls = 1
        /\ Len(req[r].history) = 2
        /\ \E j \in 1..Len(req[r].messages) :
              /\ "tool_calls" \in DOMAIN req[r].messages[j]
              /\ Len(req[r].messages[j].tool_calls) = 2
              /\ Len(req[r].messages) = j + 2
        /\ WellFormed(req[r].messages)

\* request r is about to make the first model call of its turn
AtFirstModelCall(r) == req[r].pc = "model" /\ req[r].nModelCalls = 0

\* C26: the transcript of a turn's first model call is the system prompt, then
\* the history as read from the rows stored before the turn began, then the new
\* user message, which is the last entry and occurs in it exactly once.
C26_FirstTranscript ==
    \A r \in Reqs :
        AtFirstModelCall(r) =>
            LET t == req[r].messages
                new == [role |-> "user", content |-> req[r].message]
            IN  /\ Len(t) >= 2
                /\ t[1] = [role |-> "system", content |-> SYSTEM_PROMPT]
                /\ t[Len(t)] = new
                /\ SubSeq(t, 2, Len(t) - 1)
                      \in get_message_history(req[r].messages0, req[r].conv, HISTORY_LIMIT)
                /\ Cardinality({j \in 1..Len(t) : t[j] = new}) = 1

C26_Witness ==
    \E r \in Reqs :
        /\ AtFirstModelCall(r)
        /\ Len(req[r].history) = 2
        /\ Len(req[r].messages) = 4
        /\ Len(messages) = Len(req[r].messages0) + 1
        /\ messages[Len(messages)].content = req[r].message
        /\ messages[Len(messages)].conversation_id = req[r].conv

ReachesAfterTwoTurns ==
    (\A r \in Reqs : req[r].pc \in {"idle", "done"}) /\ AfterTwoTurns

\* the history of request r's conversation as stored when r arrived
OwnHistory(r) == Dialogue(req[r].messages0, req[r].conv)

\* request r's transcript holds its own conversation's history, its own user
\* message, and after that only the tool calls the model asked of r and their
\* results
OwnTranscript(r) ==
    LET t == req[r].messages
        n == Len(OwnHistory(r)) + 2
    IN  /\ IsPrefix(<<[role |-> "system", content |-> SYSTEM_PROMPT]>>
                     \o OwnHistory(r)
                     \o <<[role |-> "user", content |-> req[r].message]>>, t)
        /\ \A j \in (n + 1)..Len(t) :
              \/ /\ t[j].role = "assistant"
                 /\ \A k \in 1..Len(t[j].tool_calls) :
                       t[j].tool_calls[k].function.arguments.obj.title
                           = Some(ConcTitle(r))
              \/ /\ t[j].role = "tool"
                 /\ \E k \in 1..Len(req[r].tool_calls_made) :
                       t[j].content = JsonDumps(req[r].tool_calls_made[k].result)

\* request r's trace holds the tool calls run for r, and no other
OwnTrace(r) ==
    LET trace == req[r].result.tool_calls
    IN  /\ Len(trace) = Len(req[r].executed)
        /\ \A k \in 1..Len(trace) :
              /\ trace[k].tool = req[r].executed[k].name
              /\ trace[k].input.obj.title = Some(ConcTitle(r))
        /\ req[r].pc = "done" => req[r].response.tool_calls = trace

\* request r's conversation received r's user message and the reply to it, and
\* nothing else
OwnLog(r) ==
    Dialogue(messages, req[r].conv)
        = OwnHistory(r) \o <<[role |-> "user", content |-> req[r].message],
                             [role |-> "assistant", content |-> req[r].result.response]>>

\* C27: with two turns on different conversations interleaved in any order,
\* each conversation's log receives exactly its own turn's user and assistant
\* message, each response's trace holds only its own turn's tool calls, and
\* each transcript holds only its own conversation's history: nothing of one
\* turn shows up in the other.
C27_ConcurrentTurnsIsolated ==
    \A r \in Reqs :
        /\ req[r].pc \in {"model", "tools", "save_assistant", "touch", "done"}
              => OwnTranscript(r)
        /\ req[r].pc \in {"save_assistant", "touch", "done"} => OwnTrace(r)
        /\ req[r].pc \in {"touch", "done"} => OwnLog(r)
        /\ req[r].pc = "done" =>
              /\ req[r].response.status = 200
              /\ req[r].response.conversation_id = req[r].conv
              /\ req[r].response.response = req[r].result.response

C27_Witness ==
    /\ \A r \in Reqs :
          /\ req[r].pc = "done"
          /\ req[r].conv = r
          /\ Len(req[r].history) = 2
          /\ Len(req[r].response.tool_calls) = 1
    /\ Len(messages) = 8
    /\ messages[5].conversation_id # messages[6].conversation_id
    /\ messages[7].conversation_id # messages[8].conversation_id
    /\ messages[6].role = "user"
    /\ Len(req[1].messages0) = 4
    /\ Len(req[2].messages0) = 4

\* C28: when two requests edit the same task concurrently, every edit returns a
\* success result, and the stored row is the one written by the edit that
\* committed last: every attribute that edit assigned holds the value it
\* assigned.
C28_LastWriteWins ==
    /\ \A r \in Reqs :
          req[r].pc = "returned" =>
              /\ "error" \notin DOMAIN req[r].result[1]
              /\ req[r].result[1].status
                    = (IF req[r].call[1].tool = "complete_task"
                       THEN "completed" ELSE "updated")
    /\ Len(hist.commits) > 0 =>
          LET last == hist.commits[Len(hist.commits)]
          IN  \A f \in DOMAIN last.assigned : tasks[1][f] = last.assigned[f]

\* the roles of the log of conversation c, in insertion order
Roles(m, c) == [k \in 1..Len(Dialogue(m, c)) |-> Dialogue(m, c)[k].role]

\* user, assistant, user, assistant, ...
Alternates(roles) ==
    \A k \in 1..Len(roles) : roles[k] = (IF k % 2 = 1 THEN "user" ELSE "assistant")

\* alternating, and every user message answered
Paired(roles) == Alternates(roles) /\ Len(roles) % 2 = 0

NoTurnInFlight == \A r \in Reqs : req[r].pc \in {"idle", "done"}

\* C29 as stated: whenever no turn is in flight, the log of every conversation
\* alternates user, assistant, beginning with user, whatever turns were served
\* (faulted and aborted ones included).
C29_LogAlternates ==
    NoTurnInFlight =>
        \A c \in DOMAIN conversations : Alternates(Roles(messages, c))

\* C29 as amended: a turn that finds its conversation's log alternating with
\* every user message answered leaves it so, unless the turn ended in a server
\* fault after its user message was stored and before its reply was; such a
\* turn leaves its user message unanswered at the end of the log.
C29_LogAlternatesUnlessFaulted ==
    \A r \in Reqs :
        (req[r].pc = "done" /\ req[r].conv \in DOMAIN conversations
           /\ Paired(Roles(req[r].messages0, req[r].conv))) =>
            LET before == Roles(req[r].messages0, req[r].conv)
                after == Roles(messages, req[r].conv)
            IN  IF req[r].faultAt \in {"agent", "save_assistant"}
                THEN after = before \o <<"user">>
                ELSE Paired(after) /\ IsPrefix(before, after)

C29_Witness ==
    \E r \in Reqs :
        /\ req[r].pc = "done"
        /\ req[r].response.status = 200
        /\ req[r].conv = 1
        /\ Len(Roles(req[r].messages0, 1)) = 2
        /\ "error" \in DOMAIN req[r].result
        /\ Roles(messages, 1) = <<"user", "assistant", "user", "assistant">>

DeclaredTools == {get_all_tools[k] : k \in 1..Len(get_all_tools)}

\* the result is one that the executor of this name produces
ProducedBy(name, result) ==
    LET missing == "error" \in DOMAIN result /\ result.error = "Task not found"
        Did(status) == "status" \in DOMAIN result /\ result.status = status
        \* the executor's except clause, on a row that another call deleted
        \* before the commit or before the refresh
        stale == /\ DOMAIN result = {"error"}
                 /\ result.error \in
                       {"UPDATE statement on table 'tasks' expected to update 1 row(s); 0 were matched.",
                        "Could not refresh instance"}
    IN  CASE name = "add_task" ->
                \/ Did("created")
                \/ stale
          [] name = "list_tasks" -> "tasks" \in DOMAIN result /\ "count" \in DOMAIN result
          [] name = "complete_task" -> Did("completed") \/ missing \/ stale
          [] name = "delete_task" -> Did("deleted") \/ missing
          [] name = "update_task" -> Did("updated") \/ missing \/ stale
          [] OTHER -> FALSE

\* C30: a call of a declared tool name is answered by that tool's executor and
\* never with "Unknown tool"; a call of any other name reaches no executor: it
\* is answered with "Unknown tool" and leaves the tasks as they were.
C30_DispatchMatchesDeclaredTools ==
    lastCall.n > 0 =>
        IF lastCall.tool_name \in DeclaredTools
        THEN /\ lastCall.result # [error |-> "Unknown tool: " \o lastCall.tool_name]
             /\ ProducedBy(lastCall.tool_name, lastCall.result)
        ELSE /\ lastCall.result = [error |-> "Unknown tool: " \o lastCall.tool_name]
             /\ lastCall.after = lastCall.before

C30_Witness ==
    /\ lastCall.n = 3
    /\ lastCall.tool_name = "update_task"
    /\ lastCall.tool_name \in DeclaredTools
    /\ "status" \in DOMAIN lastCall.result
    /\ lastCall.result.status = "updated"
    /\ lastCall.after # lastCall.before

====
